---- MODULE Spec2Model ----
(***************************************************************************)
(* The streaming assistance pipeline of SenSyntax: the two variants of the *)
(* problem-assistance server (problem-assistance-server-fixed.js, called   *)
(* "strict" here, and problem-assistance-server.js, called "lenient"),     *)
(* their single-slot response store, the sanitizer, the fallback generator *)
(* and the /explain-stream, /explain and /clear-cache handlers.            *)
(*                                                                         *)
(* Text is a sequence of characters. A character is a one-character        *)
(* string, except that                                                     *)
(*   - BT stands for the backtick character, which a TLA+ string cannot    *)
(*     hold;                                                               *)
(*   - a longer string stands for a run of prose taken verbatim from a     *)
(*     template of the source (or a catalog field): a run that lies inside *)
(*     one line and that belongs to no character class of the sanitizer's  *)
(*     patterns at the place where it stands.                              *)
(***************************************************************************)
EXTENDS Integers, Sequences, FiniteSets, TLC

(***************************************************************************)
(* Characters and the character classes of JavaScript regular expressions. *)
(***************************************************************************)
BT == "BT"

Lower == {"a", "b", "c", "d", "e", "f", "g", "h", "i", "j", "k", "l", "m",
          "n", "o", "p", "q", "r", "s", "t", "u", "v", "w", "x", "y", "z"}
Upper == {"A", "B", "C", "D", "E", "F", "G", "H", "I", "J", "K", "L", "M",
          "N", "O", "P", "Q", "R", "S", "T", "U", "V", "W", "X", "Y", "Z"}
Digit == {"0", "1", "2", "3", "4", "5", "6", "7", "8", "9"}
\* \s
SpaceCls == {" ", "\t", "\n", "\r", "\f"}
\* \w
WordCls == Lower \cup Upper \cup Digit \cup {"_"}
\* [a-zA-Z_]
IdentStartCls == Lower \cup Upper \cup {"_"}
\* the characters "." does not match
LineTerminators == {"\n", "\r"}
\* [;{}=()]
CodeSymCls == {";", "{", "}", "=", "(", ")"}

(***************************************************************************)
(* A regular expression is a sequence of items. An item is an anchor (^ or *)
(* $ under the m flag) or a character class (cls, negated when neg) that   *)
(* is matched once, or min or more times when many; greedy unless lazy.    *)
(* Every pattern of cleanResponseText has this shape.                      *)
(***************************************************************************)
Bol == [anchor |-> "bol", cls |-> {}, neg |-> FALSE, min |-> 0, many |-> FALSE, lazy |-> FALSE]
Eol == [anchor |-> "eol", cls |-> {}, neg |-> FALSE, min |-> 0, many |-> FALSE, lazy |-> FALSE]
One(c) == [anchor |-> "", cls |-> c, neg |-> FALSE, min |-> 1, many |-> FALSE, lazy |-> FALSE]
NotOne(c) == [anchor |-> "", cls |-> c, neg |-> TRUE, min |-> 1, many |-> FALSE, lazy |-> FALSE]
Rep(c, n) == [anchor |-> "", cls |-> c, neg |-> FALSE, min |-> n, many |-> TRUE, lazy |-> FALSE]
NotRep(c, n) == [anchor |-> "", cls |-> c, neg |-> TRUE, min |-> n, many |-> TRUE, lazy |-> FALSE]
\* .*
DotStar == NotRep(LineTerminators, 0)
\* [\s\S]*?
AnyLazy == [anchor |-> "", cls |-> {}, neg |-> TRUE, min |-> 0, many |-> TRUE, lazy |-> TRUE]
\* a literal word, character by character
Lit(w) == [j \in 1..Len(w) |-> One({w[j]})]

InClass(c, it) == IF it.neg THEN c \notin it.cls ELSE c \in it.cls

\* ^ under the m flag: at the start of the text or right after a line terminator
AtBol(s, i) == i = 1 \/ s[i - 1] \in LineTerminators
\* $ under the m flag: at the end of the text or right before a line terminator
AtEol(s, i) == i = Len(s) + 1 \/ s[i] \in LineTerminators

\* F(v), the value v being computed once
With(v, F(_)) == CHOOSE r \in {F(x) : x \in {v}} : TRUE

\* the number of consecutive characters of s from position i on that are in the
\* class of item it
RECURSIVE RunLen(_, _, _)
RunLen(s, i, it) ==
  IF i > Len(s) \/ ~InClass(s[i], it) THEN 0 ELSE 1 + RunLen(s, i + 1, it)

(***************************************************************************)
(* The backtracking matcher: MatchFrom(re, k, s, i) is the position right  *)
(* after the match of items k.. of re that starts at position i of s and   *)
(* that a backtracking engine finds first, or 0 when there is none.        *)
(***************************************************************************)
RECURSIVE MatchFrom(_, _, _, _)
TryCount(re, k, s, i, lo, hi) ==
  \* the repetition counts lo..hi of item k after which the rest of re matches,
  \* each with the end of that match; a greedy item takes the largest count, a
  \* lazy one the smallest
  With({r \in {<<c, MatchFrom(re, k + 1, s, i + c)>> : c \in lo..hi} : r[2] # 0},
       LAMBDA found :
         IF found = {} THEN 0
         ELSE IF re[k].lazy THEN (CHOOSE r \in found : \A q \in found : r[1] <= q[1])[2]
         ELSE (CHOOSE r \in found : \A q \in found : r[1] >= q[1])[2])

MatchFrom(re, k, s, i) ==
  IF k > Len(re) THEN i
  ELSE IF re[k].anchor = "bol" THEN (IF AtBol(s, i) THEN MatchFrom(re, k + 1, s, i) ELSE 0)
  ELSE IF re[k].anchor = "eol" THEN (IF AtEol(s, i) THEN MatchFrom(re, k + 1, s, i) ELSE 0)
  ELSE IF ~re[k].many
  THEN (IF i <= Len(s) /\ InClass(s[i], re[k]) THEN MatchFrom(re, k + 1, s, i + 1) ELSE 0)
  ELSE With(RunLen(s, i, re[k]),
            LAMBDA n : IF n < re[k].min THEN 0 ELSE TryCount(re, k, s, i, re[k].min, n))

\* the first match of re in s from position i on that is not empty: where it
\* starts and where it ends, or <<0, 0>>
NextMatch(re, s, i) ==
  With({j \in i..Len(s) : MatchFrom(re, 1, s, j) > j},
       LAMBDA starts :
         IF starts = {} THEN <<0, 0>>
         ELSE With(CHOOSE j \in starts : \A q \in starts : j <= q,
                   LAMBDA j : <<j, MatchFrom(re, 1, s, j)>>))

\* the text from position i on with every match replaced
RECURSIVE ReplaceFrom(_, _, _, _)
ReplaceFrom(re, s, i, by) ==
  With(NextMatch(re, s, i),
       LAMBDA m :
         IF m[1] = 0 THEN SubSeq(s, i, Len(s))
         ELSE SubSeq(s, i, m[1] - 1) \o by \o ReplaceFrom(re, s, m[2], by))

\* String.prototype.replace(re, by) with the g flag: every match, found from
\* left to right in the original text, is replaced
ReplaceAll(re, s, by) == With(s, LAMBDA text : ReplaceFrom(re, text, 1, by))

\* cleaned = cleaned.replace(pattern, "") for the patterns lo..hi of a list, in
\* order: the first half of them, then the second half on the result
RECURSIVE ReplaceEach(_, _, _, _)
ReplaceEach(res, lo, hi, s) ==
  IF lo > hi THEN s
  ELSE IF lo = hi THEN ReplaceAll(res[lo], s, <<>>)
  ELSE With(ReplaceEach(res, lo, (lo + hi) \div 2, s),
            LAMBDA t : ReplaceEach(res, (lo + hi) \div 2 + 1, hi, t))

(***************************************************************************)
(* The patterns of cleanResponseText, in the order of the source.          *)
(***************************************************************************)
\* /```[\s\S]*?```/g
FencedRe == Lit(<<BT, BT, BT>>) \o <<AnyLazy>> \o Lit(<<BT, BT, BT>>)
\* an inline span that must hold a character: /`[^`]+`/g
InlineReNonEmpty == <<One({BT}), NotRep({BT}, 1), One({BT})>>
\* /`[^`]*`/g
InlineRe == <<One({BT}), NotRep({BT}, 0), One({BT})>>
\* /^\s{2,}.*[;{}=()].*$/gm
IndentedCodeRe == <<Bol, Rep(SpaceCls, 2), DotStar, One(CodeSymCls), DotStar, Eol>>
\* /^\t+.*[;{}=()].*$/gm
TabbedCodeRe == <<Bol, Rep({"\t"}, 1), DotStar, One(CodeSymCls), DotStar, Eol>>
\* /^def\s+\w+\s*\(.*\):/gm
PyDefReStrict == <<Bol>> \o Lit(<<"d", "e", "f">>) \o <<Rep(SpaceCls, 1), Rep(WordCls, 1), Rep(SpaceCls, 0), One({"("}), DotStar, One({")"}), One({":"})>>
\* /^def\s+\w+\s*$$.*$$:/gm (as written in the lenient source)
PyDefReLenient == <<Bol>> \o Lit(<<"d", "e", "f">>) \o <<Rep(SpaceCls, 1), Rep(WordCls, 1), Rep(SpaceCls, 0), Eol, Eol, DotStar, Eol, Eol, One({":"})>>
\* /^import\s+\w+/gm
ImportRe == <<Bol>> \o Lit(<<"i", "m", "p", "o", "r", "t">>) \o <<Rep(SpaceCls, 1), Rep(WordCls, 1)>>
\* /^from\s+\w+\s+import/gm
FromImportRe == <<Bol>> \o Lit(<<"f", "r", "o", "m">>) \o <<Rep(SpaceCls, 1), Rep(WordCls, 1), Rep(SpaceCls, 1)>> \o Lit(<<"i", "m", "p", "o", "r", "t">>)
\* /^class\s+\w+/gm
ClassRe == <<Bol>> \o Lit(<<"c", "l", "a", "s", "s">>) \o <<Rep(SpaceCls, 1), Rep(WordCls, 1)>>
\* /^if\s+.*:/gm
IfRe == <<Bol>> \o Lit(<<"i", "f">>) \o <<Rep(SpaceCls, 1), DotStar, One({":"})>>
\* /^for\s+.*:/gm
ForRe == <<Bol>> \o Lit(<<"f", "o", "r">>) \o <<Rep(SpaceCls, 1), DotStar, One({":"})>>
\* /^while\s+.*:/gm
WhileRe == <<Bol>> \o Lit(<<"w", "h", "i", "l", "e">>) \o <<Rep(SpaceCls, 1), DotStar, One({":"})>>
\* /^return\s+.*/gm
ReturnRe == <<Bol>> \o Lit(<<"r", "e", "t", "u", "r", "n">>) \o <<Rep(SpaceCls, 1), DotStar>>
\* /^\s*[a-zA-Z_][a-zA-Z0-9_]*\s*=\s*.*/gm
AssignRe == <<Bol, Rep(SpaceCls, 0), One(IdentStartCls), Rep(WordCls, 0), Rep(SpaceCls, 0), One({"="}), Rep(SpaceCls, 0), DotStar>>
\* /^function\s+\w+\s*\(.*\)/gm
JsFunctionRe == <<Bol>> \o Lit(<<"f", "u", "n", "c", "t", "i", "o", "n">>) \o <<Rep(SpaceCls, 1), Rep(WordCls, 1), Rep(SpaceCls, 0), One({"("}), DotStar, One({")"})>>
\* /^const\s+.*=\s*function/gm
ConstFunctionRe == <<Bol>> \o Lit(<<"c", "o", "n", "s", "t">>) \o <<Rep(SpaceCls, 1), DotStar, One({"="}), Rep(SpaceCls, 0)>> \o Lit(<<"f", "u", "n", "c", "t", "i", "o", "n">>)
\* /^let\s+.*=\s*function/gm
LetFunctionRe == <<Bol>> \o Lit(<<"l", "e", "t">>) \o <<Rep(SpaceCls, 1), DotStar, One({"="}), Rep(SpaceCls, 0)>> \o Lit(<<"f", "u", "n", "c", "t", "i", "o", "n">>)
\* /^var\s+.*=\s*function/gm
VarFunctionRe == <<Bol>> \o Lit(<<"v", "a", "r">>) \o <<Rep(SpaceCls, 1), DotStar, One({"="}), Rep(SpaceCls, 0)>> \o Lit(<<"f", "u", "n", "c", "t", "i", "o", "n">>)
\* /^const\s+.*=\s*\(.*\)\s*=>/gm
ConstArrowRe == <<Bol>> \o Lit(<<"c", "o", "n", "s", "t">>) \o <<Rep(SpaceCls, 1), DotStar, One({"="}), Rep(SpaceCls, 0), One({"("}), DotStar, One({")"}), Rep(SpaceCls, 0), One({"="}), One({">"})>>
\* /^let\s+.*=\s*\(.*\)\s*=>/gm
LetArrowRe == <<Bol>> \o Lit(<<"l", "e", "t">>) \o <<Rep(SpaceCls, 1), DotStar, One({"="}), Rep(SpaceCls, 0), One({"("}), DotStar, One({")"}), Rep(SpaceCls, 0), One({"="}), One({">"})>>
\* /^var\s+.*=\s*\(.*\)\s*=>/gm
VarArrowRe == <<Bol>> \o Lit(<<"v", "a", "r">>) \o <<Rep(SpaceCls, 1), DotStar, One({"="}), Rep(SpaceCls, 0), One({"("}), DotStar, One({")"}), Rep(SpaceCls, 0), One({"="}), One({">"})>>
\* /^public\s+.*\(/gm
PublicMethodRe == <<Bol>> \o Lit(<<"p", "u", "b", "l", "i", "c">>) \o <<Rep(SpaceCls, 1), DotStar, One({"("})>>
\* /^private\s+.*\(/gm
PrivateMethodRe == <<Bol>> \o Lit(<<"p", "r", "i", "v", "a", "t", "e">>) \o <<Rep(SpaceCls, 1), DotStar, One({"("})>>
\* /^protected\s+.*\(/gm
ProtectedMethodRe == <<Bol>> \o Lit(<<"p", "r", "o", "t", "e", "c", "t", "e", "d">>) \o <<Rep(SpaceCls, 1), DotStar, One({"("})>>
\* /^static\s+.*\(/gm
StaticMethodRe == <<Bol>> \o Lit(<<"s", "t", "a", "t", "i", "c">>) \o <<Rep(SpaceCls, 1), DotStar, One({"("})>>
\* /^void\s+\w+\s*\(/gm
VoidFunctionRe == <<Bol>> \o Lit(<<"v", "o", "i", "d">>) \o <<Rep(SpaceCls, 1), Rep(WordCls, 1), Rep(SpaceCls, 0), One({"("})>>
\* /^int\s+\w+\s*\(/gm
IntFunctionRe == <<Bol>> \o Lit(<<"i", "n", "t">>) \o <<Rep(SpaceCls, 1), Rep(WordCls, 1), Rep(SpaceCls, 0), One({"("})>>
\* /^char\s+\w+\s*\(/gm
CharFunctionRe == <<Bol>> \o Lit(<<"c", "h", "a", "r">>) \o <<Rep(SpaceCls, 1), Rep(WordCls, 1), Rep(SpaceCls, 0), One({"("})>>
\* /^float\s+\w+\s*\(/gm
FloatFunctionRe == <<Bol>> \o Lit(<<"f", "l", "o", "a", "t">>) \o <<Rep(SpaceCls, 1), Rep(WordCls, 1), Rep(SpaceCls, 0), One({"("})>>
\* /^double\s+\w+\s*\(/gm
DoubleFunctionRe == <<Bol>> \o Lit(<<"d", "o", "u", "b", "l", "e">>) \o <<Rep(SpaceCls, 1), Rep(WordCls, 1), Rep(SpaceCls, 0), One({"("})>>
\* /^bool\s+\w+\s*\(/gm
BoolFunctionRe == <<Bol>> \o Lit(<<"b", "o", "o", "l">>) \o <<Rep(SpaceCls, 1), Rep(WordCls, 1), Rep(SpaceCls, 0), One({"("})>>
\* /^#include/gm
IncludeRe == <<Bol>> \o Lit(<<"#", "i", "n", "c", "l", "u", "d", "e">>)
\* /^using\s+namespace/gm
UsingNamespaceRe == <<Bol>> \o Lit(<<"u", "s", "i", "n", "g">>) \o <<Rep(SpaceCls, 1)>> \o Lit(<<"n", "a", "m", "e", "s", "p", "a", "c", "e">>)
\* /^namespace\s+\w+/gm
NamespaceRe == <<Bol>> \o Lit(<<"n", "a", "m", "e", "s", "p", "a", "c", "e">>) \o <<Rep(SpaceCls, 1), Rep(WordCls, 1)>>
\* /^template\s*</gm
TemplateRe == <<Bol>> \o Lit(<<"t", "e", "m", "p", "l", "a", "t", "e">>) \o <<Rep(SpaceCls, 0), One({"<"})>>
\* /^printf\s*\(/gm
PrintfRe == <<Bol>> \o Lit(<<"p", "r", "i", "n", "t", "f">>) \o <<Rep(SpaceCls, 0), One({"("})>>
\* /^cout\s*<</gm
CoutRe == <<Bol>> \o Lit(<<"c", "o", "u", "t">>) \o <<Rep(SpaceCls, 0), One({"<"}), One({"<"})>>
\* /^cin\s*>>/gm
CinRe == <<Bol>> \o Lit(<<"c", "i", "n">>) \o <<Rep(SpaceCls, 0), One({">"}), One({">"})>>
\* /^System\.out\.println/gm
PrintlnRe == <<Bol>> \o Lit(<<"S", "y", "s", "t", "e", "m", ".", "o", "u", "t", ".", "p", "r", "i", "n", "t", "l", "n">>)
\* /^System\.out\.print/gm
SystemPrintRe == <<Bol>> \o Lit(<<"S", "y", "s", "t", "e", "m", ".", "o", "u", "t", ".", "p", "r", "i", "n", "t">>)
\* /^console\.log/gm
ConsoleLogRe == <<Bol>> \o Lit(<<"c", "o", "n", "s", "o", "l", "e", ".", "l", "o", "g">>)
\* /^print\s*\(/gm
PyPrintRe == <<Bol>> \o Lit(<<"p", "r", "i", "n", "t">>) \o <<Rep(SpaceCls, 0), One({"("})>>
\* /^[a-zA-Z_][a-zA-Z0-9_]*\.[a-zA-Z_][a-zA-Z0-9_]*\(/gm
MethodCallRe == <<Bol, One(IdentStartCls), Rep(WordCls, 0), One({"."}), One(IdentStartCls), Rep(WordCls, 0), One({"("})>>
\* /^[a-zA-Z_][a-zA-Z0-9_]*\(/gm
FunctionCallRe == <<Bol, One(IdentStartCls), Rep(WordCls, 0), One({"("})>>
\* /\[\s*\d+\s*:\s*\d+\s*\]/g
SliceRe == <<One({"["}), Rep(SpaceCls, 0), Rep(Digit, 1), Rep(SpaceCls, 0), One({":"}), Rep(SpaceCls, 0), Rep(Digit, 1), Rep(SpaceCls, 0), One({"]"})>>
\* /\(\s*\d+\s*,\s*\d+\s*\)/g
PairRe == <<One({"("}), Rep(SpaceCls, 0), Rep(Digit, 1), Rep(SpaceCls, 0), One({","}), Rep(SpaceCls, 0), Rep(Digit, 1), Rep(SpaceCls, 0), One({")"})>>
\* /\{\s*\w+\s*:\s*\w+\s*\}/g
ObjectLiteralRe == <<One({"{"}), Rep(SpaceCls, 0), Rep(WordCls, 1), Rep(SpaceCls, 0), One({":"}), Rep(SpaceCls, 0), Rep(WordCls, 1), Rep(SpaceCls, 0), One({"}"})>>
\* /^[a-zA-Z_][a-zA-Z0-9_]*$/gm
BareIdentifierRe == <<Bol, One(IdentStartCls), Rep(WordCls, 0), Eol>>
\* /\n\s*\n\s*\n/g
BlankLinesRe == <<One({"\n"}), Rep(SpaceCls, 0), One({"\n"}), Rep(SpaceCls, 0), One({"\n"})>>
\* codePatterns of the strict variant
codePatternsStrict ==
  <<IndentedCodeRe, TabbedCodeRe, PyDefReStrict, ImportRe, FromImportRe,
    ClassRe, IfRe, ForRe, WhileRe, ReturnRe, AssignRe, JsFunctionRe,
    ConstFunctionRe, LetFunctionRe, VarFunctionRe, ConstArrowRe, LetArrowRe,
    VarArrowRe, PublicMethodRe, PrivateMethodRe, ProtectedMethodRe,
    StaticMethodRe, VoidFunctionRe, IntFunctionRe, CharFunctionRe,
    FloatFunctionRe, DoubleFunctionRe, BoolFunctionRe, IncludeRe,
    UsingNamespaceRe, NamespaceRe, TemplateRe, PrintfRe, CoutRe, CinRe,
    PrintlnRe, SystemPrintRe, ConsoleLogRe, PyPrintRe, MethodCallRe,
    FunctionCallRe>>
\* codePatterns of the lenient variant
codePatternsLenient ==
  <<IndentedCodeRe, TabbedCodeRe, PyDefReLenient, ImportRe, FromImportRe,
    ClassRe, IfRe, ForRe, WhileRe, ReturnRe, AssignRe>>
\* cleanResponseText of the strict variant
cleanResponseTextStrict(text) ==
  LET c1 == ReplaceAll(FencedRe, text, <<>>)
      c2 == ReplaceAll(InlineRe, c1, <<>>)
      c3 == ReplaceEach(codePatternsStrict, 1, Len(codePatternsStrict), c2)
      c4 == ReplaceAll(SliceRe, c3, <<>>)
      c5 == ReplaceAll(PairRe, c4, <<>>)
      c6 == ReplaceAll(ObjectLiteralRe, c5, <<>>)
      c7 == ReplaceAll(BareIdentifierRe, c6, <<>>)
  IN ReplaceAll(BlankLinesRe, c7, <<"\n", "\n">>)

\* cleanResponseText of the lenient variant
cleanResponseTextLenient(text) ==
  LET c1 == ReplaceAll(FencedRe, text, <<>>)
      c2 == ReplaceAll(InlineRe, c1, <<>>)
  IN ReplaceEach(codePatternsLenient, 1, Len(codePatternsLenient), c2)

cleanResponseText(v, text) ==
  IF v = "strict" THEN cleanResponseTextStrict(text) ELSE cleanResponseTextLenient(text)


(***************************************************************************)
(* JavaScript values. A number is Num(n) or NaN; a query parameter or an   *)
(* optional argument is Absent (undefined) or Given(v).                    *)
(***************************************************************************)
Num(n) == [nan |-> FALSE, n |-> n]
NaN == [nan |-> TRUE, n |-> 0]
\* a === b on numbers
StrictEq(a, b) == ~a.nan /\ ~b.nan /\ a.n = b.n
Absent == <<>>
Given(v) == <<v>>
\* !x for an optional string: undefined and "" are falsy
Falsy(x) == x = Absent \/ x = Given("")

(***************************************************************************)
(* Bounds of the model and the inputs of the requests.                     *)
(***************************************************************************)
\* the number of problems in the catalog (questions.json)
NumQuestions == 2

CatalogTitles == <<"Two Sum", "Valid Palindrome", "Merge Intervals", "LRU Cache">>
CatalogDifficulties == <<"Easy", "Medium", "Hard", "Hard">>
\* the catalog, a 0-based array: questions[i] is Catalog[i + 1]
Catalog == [i \in 1..NumQuestions |->
              [title |-> CatalogTitles[i], difficulty |-> CatalogDifficulties[i]]]

RawIndexes == {Absent, Given("0"), Given("1"), Given("9"), Given("-1"), Given("abc")}
RawLanguages == {Absent, Given(""), Given("python"), Given("java"), Given("Java"), Given("rust")}
RawRefreshes == {Absent, Given("true"), Given("false")}

\* Number.parseInt on the index strings the requests carry
ParseInt(str) ==
  CASE str = "0" -> Num(0)
    [] str = "1" -> Num(1)
    [] str = "9" -> Num(9)
    [] str = "-1" -> Num(0 - 1)
    [] OTHER -> NaN

\* the language string is taken with the letter case it came with
ToLowerCaseAsGiven(str) == str

\* String.prototype.toLowerCase on the language strings the requests carry
ToLowerCase(str) ==
  CASE str = "Java" -> "java"
    [] str = "JAVA" -> "java"
    [] str = "Python" -> "python"
    [] OTHER -> str

(***************************************************************************)
(* Languages.                                                              *)
(***************************************************************************)
SUPPORTED_LANGUAGES == <<"python", "javascript", "java", "cpp", "c">>
DEFAULT_LANGUAGE == "python"
Supported == {SUPPORTED_LANGUAGES[j] : j \in 1..Len(SUPPORTED_LANGUAGES)}

\* a language that is missing or not supported is replaced by the default
validateLanguageDefaulting(language) ==
  IF Falsy(language) \/ ToLowerCase(language[1]) \notin Supported
  THEN [ok |-> TRUE, value |-> DEFAULT_LANGUAGE, error |-> <<>>]
  ELSE [ok |-> TRUE, value |-> ToLowerCase(language[1]), error |-> <<>>]

\* validateLanguage of the strict variant: the normalized name, or the error thrown
validateLanguageStrict(language) ==
  IF Falsy(language)
  THEN [ok |-> FALSE, value |-> "", error |-> <<"Language parameter is required">>]
  ELSE LET normalizedLang == ToLowerCase(language[1]) IN
    IF normalizedLang \in Supported
    THEN [ok |-> TRUE, value |-> normalizedLang, error |-> <<>>]
    ELSE [ok |-> FALSE, value |-> "", error |-> <<"Unsupported language: ", language[1]>>]

\* a language that is not supported is rejected, as the strict variant does
validateLanguageRejecting(language) == validateLanguageStrict(language)

\* the language is taken as the client gave it
validateLanguageAsGiven(language) ==
  IF Falsy(language)
  THEN [ok |-> TRUE, value |-> DEFAULT_LANGUAGE, error |-> <<>>]
  ELSE [ok |-> TRUE, value |-> language[1], error |-> <<>>]

\* validateLanguage of the lenient variant: it never throws
validateLanguageLenient(language) ==
  IF Falsy(language)
  THEN [ok |-> TRUE, value |-> DEFAULT_LANGUAGE, error |-> <<>>]
  ELSE LET normalizedLang == ToLowerCase(language[1]) IN
    IF normalizedLang \in Supported
    THEN [ok |-> TRUE, value |-> normalizedLang, error |-> <<>>]
    ELSE [ok |-> TRUE, value |-> DEFAULT_LANGUAGE, error |-> <<>>]

validateLanguage(v, language) ==
  IF v = "strict" THEN validateLanguageStrict(language) ELSE validateLanguageLenient(language)

getLanguageDisplayNameStrict(language) ==
  CASE language = "python" -> "Python"
    [] language = "javascript" -> "JavaScript"
    [] language = "java" -> "Java"
    [] language = "cpp" -> "C++"
    [] language = "c" -> "C"
    [] OTHER -> "Unknown Language"

getLanguageDisplayNameLenient(language) ==
  CASE language = "python" -> "Python"
    [] language = "javascript" -> "JavaScript"
    [] language = "java" -> "Java"
    [] language = "cpp" -> "C++"
    [] language = "c" -> "C"
    [] OTHER -> "Python"

getLanguageDisplayName(v, language) ==
  IF v = "strict" THEN getLanguageDisplayNameStrict(language)
  ELSE getLanguageDisplayNameLenient(language)

\* getLanguageSpecificContext (lenient variant), trimmed
getLanguageSpecificContext(language) ==
  CASE language = "python" ->
         <<"- Focus on Python-specific approaches and considerations", "\n",
           "- Consider Python's built-in data structures like lists, dictionaries, sets, and tuples", "\n",
           "- Think about Python's standard library modules that might be helpful", "\n",
           "- Consider Python's strengths in readability and simplicity", "\n",
           "- Remember Python's zero-indexed collections and slicing capabilities">>
    [] language = "javascript" ->
         <<"- Focus on JavaScript-specific approaches and considerations", "\n",
           "- Consider JavaScript's array methods and object manipulation techniques", "\n",
           "- Think about JavaScript's functional programming capabilities", "\n",
           "- Consider JavaScript's asynchronous programming model if relevant", "\n",
           "- Remember JavaScript's zero-indexed arrays and object property access">>
    [] language = "java" ->
         <<"- Focus on Java-specific approaches and considerations", "\n",
           "- Consider Java's collection framework ", "(", "ArrayList, HashMap, etc.", ")", "\n",
           "- Think about Java's object-oriented design principles", "\n",
           "- Consider Java's type system and how it affects the solution", "\n",
           "- Remember Java's zero-indexed arrays and explicit type declarations">>
    [] language = "cpp" ->
         <<"- Focus on C++-specific approaches and considerations", "\n",
           "- Consider C++'s STL containers and algorithms", "\n",
           "- Think about memory management and efficiency", "\n",
           "- Consider C++'s template system for generic programming", "\n",
           "- Remember C++'s zero-indexed arrays and pointer arithmetic">>
    [] language = "c" ->
         <<"- Focus on C-specific approaches and considerations", "\n",
           "- Consider C's standard library functions", "\n",
           "- Think about manual memory management and efficiency", "\n",
           "- Consider C's procedural programming paradigm", "\n",
           "- Remember C's zero-indexed arrays and pointer arithmetic">>
    [] OTHER -> <<>>

\* generateFallbackResponse of the strict variant (language is a validated name)
generateFallbackResponseStrict(question, language) ==
  LET langDisplayName == getLanguageDisplayNameStrict(validateLanguageStrict(Given(language)).value) IN
  <<"SECTION 1: Explaining the Problem", "\n",
    "- The AI Mentor is not available right now. Please try again later.", "\n",
    "- This problem is about ", question.title, " with a difficulty of ", question.difficulty, ".", "\n",
    "- You selected ", langDisplayName, " as your programming language.", "\n",
    "\n",
    "SECTION 2: Solution Strategy", "\n",
    "- While the AI Mentor is unavailable, you can try to solve this problem on your own.", "\n",
    "- Read the problem statement carefully and think about the key concepts involved.", "\n",
    "- Consider how you would approach this problem using ", langDisplayName, ".", "\n",
    "\n",
    "SECTION 3: Step-by-Step Approach", "\n",
    "1. Read the problem statement and understand the requirements", "\n",
    "2. Analyze the sample inputs and outputs", "\n",
    "3. Think about potential algorithms or data structures that might help", "\n",
    "4. Try to implement a solution in ", langDisplayName, " and test it with the sample cases", "\n",
    "5. If you're stuck, try again later when the AI Mentor is available">>

\* generateFallbackResponse of the lenient variant
generateFallbackResponseLenient(question, language) ==
  LET normalizedLang == validateLanguageLenient(Given(language)).value
      langDisplayName == getLanguageDisplayNameLenient(normalizedLang)
      languageContext == getLanguageSpecificContext(normalizedLang)
  IN
  <<"SECTION 1: Explaining the Problem", "\n",
    "- The AI Mentor is not available right now. Please try again later.", "\n",
    "- This problem is about ", question.title, " with a difficulty of ", question.difficulty, ".", "\n",
    "- You selected ", langDisplayName, " as your programming language.", "\n",
    "- When the AI Mentor is available, it will provide a detailed explanation of this problem at a layman level.", "\n",
    "\n",
    "SECTION 2: DSA Topics Involved", "\n",
    "- When the AI Mentor is available, it will identify the key Data Structures and Algorithms ",
      "(", "DSA", ")", " topics involved in this problem.", "\n",
    "- It will explain each DSA topic in simple terms with examples.", "\n",
    "- Common DSA topics include arrays, linked lists, stacks, queues, trees, graphs, sorting algorithms, searching algorithms, and dynamic programming.", "\n",
    "- Understanding the relevant DSA topics is crucial for developing an effective solution strategy.", "\n",
    "\n",
    "SECTION 3: Solution Strategy", "\n",
    "1. Read the problem statement and understand the requirements", "\n",
    "2. Analyze the sample inputs and outputs", "\n",
    "3. Think about potential algorithms or data structures that might help", "\n",
    "4. Consider ", langDisplayName, "-specific libraries or features that could be useful", "\n",
    "5. Plan your solution with ", langDisplayName, " in mind", "\n",
    "6. Try to implement a solution in ", langDisplayName, " and test it with the sample cases", "\n",
    "7. If you're stuck, try again later when the AI Mentor is available", "\n",
    "\n",
    "When the AI Mentor is available, it will provide ", langDisplayName,
      "-specific guidance for this problem, including:", "\n">>
  \o languageContext

\* a fallback text that says nothing of the problem
generateFallbackResponseAnonymous(v, question, language) ==
  <<"SECTION 1: Explaining the Problem", "\n",
    "- The AI Mentor is not available right now. Please try again later.", "\n",
    "- You selected ", getLanguageDisplayName(v, language), " as your programming language.">>

generateFallbackResponse(v, question, language) ==
  IF v = "strict" THEN generateFallbackResponseStrict(question, language)
  ELSE generateFallbackResponseLenient(question, language)


(***************************************************************************)
(* The response store: the file PAResponse.json. The value <<>> is "no     *)
(* file"; <<r>> is a file holding the record r (JSON.stringify followed by *)
(* JSON.parse gives back the number and the strings of a record as they    *)
(* were; the timestamp, which no handler reads, is left out);              *)
(* <<EmptyFile>> is a file of no bytes, which a failed write leaves.       *)
(***************************************************************************)
\* the file after writeFileSync opened it (which truncates it) and failed in
\* the write: readFileSync gives "", which JSON.parse rejects
EmptyFile == [data |-> ""]

\* how fs.writeFileSync (with the mkdirSync before it) may end: the file is
\* written; it throws before the file is opened (mkdirSync throws, open is
\* refused) and the file is as it was; it throws in the write (the disk is
\* full, the file size limit is reached), after the open has emptied the
\* file
WriteOutcomes == {"written", "unopened", "truncated"}

\* loadStoredResponse: the record, or <<>> for null (no file, or the read or
\* the parse throws: readOk false, or the file is empty)
loadStoredResponse(st, readOk) ==
  IF readOk /\ st # <<>> /\ st # <<EmptyFile>> THEN st ELSE <<>>

\* saveResponse of the strict variant: validateLanguage throws before
\* anything is written
saveResponseStrict(st, questionIndex, title, responseText, language, write) ==
  LET cleanedResponse == cleanResponseTextStrict(responseText)
      lang == validateLanguageStrict(language)
  IN IF lang.ok /\ write = "written"
     THEN [ok |-> TRUE,
           store |-> <<[questionIndex |-> questionIndex, title |-> title,
                        language |-> lang.value, response |-> cleanedResponse]>>]
     ELSE [ok |-> FALSE,
           store |-> IF lang.ok /\ write = "truncated" THEN <<EmptyFile>> ELSE st]

\* saveResponse of the lenient variant: language defaults to DEFAULT_LANGUAGE
saveResponseLenient(st, questionIndex, title, responseText, language, write) ==
  LET cleanedResponse == cleanResponseTextLenient(responseText)
      normalizedLang == validateLanguageLenient(
                          IF language = Absent THEN Given(DEFAULT_LANGUAGE) ELSE language).value
      langDisplayName == getLanguageDisplayNameLenient(normalizedLang)
  IN IF write = "written"
     THEN [ok |-> TRUE,
           store |-> <<[questionIndex |-> questionIndex, title |-> title,
                        language |-> normalizedLang, languageDisplay |-> langDisplayName,
                        response |-> cleanedResponse]>>]
     ELSE [ok |-> FALSE, store |-> IF write = "truncated" THEN <<EmptyFile>> ELSE st]

\* a record that is there is never overwritten
saveResponseKeepingFirst(v, st, questionIndex, title, responseText, language, write) ==
  IF loadStoredResponse(st, TRUE) # <<>> /\ write = "written" THEN [ok |-> TRUE, store |-> st]
  ELSE IF v = "strict"
  THEN saveResponseStrict(st, questionIndex, title, responseText, language, write)
  ELSE saveResponseLenient(st, questionIndex, title, responseText, language, write)

\* when the store holds a record only its text is replaced: the index, the
\* title and the language of the older save stay
saveResponseMerging(v, st, questionIndex, title, responseText, language, write) ==
  With(IF v = "strict"
       THEN saveResponseStrict(st, questionIndex, title, responseText, language, write)
       ELSE saveResponseLenient(st, questionIndex, title, responseText, language, write),
       LAMBDA sv : IF sv.ok /\ loadStoredResponse(st, TRUE) # <<>>
                   THEN [ok |-> TRUE, store |-> <<[st[1] EXCEPT !.response = sv.store[1].response]>>]
                   ELSE sv)

\* the text is written as it was given, not sanitized
saveResponseUnsanitized(v, st, questionIndex, title, responseText, language, write) ==
  With(IF v = "strict"
       THEN saveResponseStrict(st, questionIndex, title, <<>>, language, write)
       ELSE saveResponseLenient(st, questionIndex, title, <<>>, language, write),
       LAMBDA sv : IF sv.ok
                   THEN [ok |-> TRUE, store |-> <<[sv.store[1] EXCEPT !.response = responseText]>>]
                   ELSE sv)

\* only closed fences are taken out of the text that is written
saveResponseFencesOnly(v, st, questionIndex, title, responseText, language, write) ==
  With(IF v = "strict"
       THEN saveResponseStrict(st, questionIndex, title, <<>>, language, write)
       ELSE saveResponseLenient(st, questionIndex, title, <<>>, language, write),
       LAMBDA sv : IF sv.ok
                   THEN [ok |-> TRUE,
                         store |-> <<[sv.store[1] EXCEPT
                                        !.response = ReplaceAll(FencedRe, responseText, <<>>)]>>]
                   ELSE sv)

\* the record is added to the store, after the records that are there
saveResponseAppending(v, st, questionIndex, title, responseText, language, write) ==
  With(IF v = "strict"
       THEN saveResponseStrict(st, questionIndex, title, responseText, language, write)
       ELSE saveResponseLenient(st, questionIndex, title, responseText, language, write),
       LAMBDA sv : [ok |-> sv.ok, store |-> IF sv.ok THEN loadStoredResponse(st, TRUE) \o sv.store ELSE sv.store])

\* the record is written under the default language whatever language is given
saveResponseUnderDefault(v, st, questionIndex, title, responseText, language, write) ==
  IF v = "strict"
  THEN saveResponseStrict(st, questionIndex, title, responseText, Given(DEFAULT_LANGUAGE), write)
  ELSE saveResponseLenient(st, questionIndex, title, responseText, Absent, write)

saveResponse(v, st, questionIndex, title, responseText, language, write) ==
  IF v = "strict"
  THEN saveResponseStrict(st, questionIndex, title, responseText, language, write)
  ELSE saveResponseLenient(st, questionIndex, title, responseText, language, write)

\* the record /clear-cache writes
emptyResponse ==
  [questionIndex |-> Num(0 - 1), title |-> "", language |-> DEFAULT_LANGUAGE,
   languageDisplay |-> getLanguageDisplayNameLenient(DEFAULT_LANGUAGE), response |-> <<>>]

(***************************************************************************)
(* The body of the inference endpoint: newline-delimited JSON records. In  *)
(* a body, "{" stands for the opening of a record up to the quote that     *)
(* opens its response string, "}" for the closing quote and the rest of    *)
(* the record, "\\n" for an escaped newline inside the string, "\n" for    *)
(* the newline between records; any other character is a character of the  *)
(* response string.                                                        *)
(***************************************************************************)
OpenRecord == "{"
CloseRecord == "}"
EscapedNewline == "\\n"
JsonWhitespace == {" ", "\t", "\n", "\r"}

\* jsonBuffer.split("\n")
RECURSIVE SplitLines(_, _, _)
SplitLines(buf, i, cur) ==
  IF i > Len(buf) THEN <<cur>>
  ELSE IF buf[i] = "\n" THEN <<cur>> \o SplitLines(buf, i + 1, <<>>)
  ELSE SplitLines(buf, i + 1, Append(cur, buf[i]))

\* str.trim() is the empty string
TrimsToEmpty(str) == \A j \in 1..Len(str) : str[j] \in SpaceCls

RECURSIVE SkipLeft(_, _)
SkipLeft(str, i) == IF i <= Len(str) /\ str[i] \in JsonWhitespace THEN SkipLeft(str, i + 1) ELSE i
RECURSIVE SkipRight(_, _)
SkipRight(str, j) == IF j >= 1 /\ str[j] \in JsonWhitespace THEN SkipRight(str, j - 1) ELSE j

\* the characters of a JSON string, decoded
Unescape(str) == [j \in 1..Len(str) |-> IF str[j] = EscapedNewline THEN "\n" ELSE str[j]]

\* JSON.parse(str) followed by .response: ok is false when JSON.parse throws
JsonParse(str) ==
  LET a == SkipLeft(str, 1)
      b == SkipRight(str, Len(str))
      inner == SubSeq(str, a + 1, b - 1)
  IN IF /\ b > a
        /\ str[a] = OpenRecord
        /\ str[b] = CloseRecord
        /\ \A j \in 1..Len(inner) : inner[j] \notin {OpenRecord, CloseRecord, "\n", "\r", "\t"}
     THEN [ok |-> TRUE, response |-> Unescape(inner)]
     ELSE [ok |-> FALSE, response |-> <<>>]

\* the loop over lines[0 .. lines.length - 2] of the "data" handler: the text
\* accumulated, the fragments written to the client, and whether JSON.parse threw
RECURSIVE ProcessLines(_, _, _, _)
ProcessLines(lines, i, full, out) ==
  IF i > Len(lines) - 1 THEN [full |-> full, out |-> out, threw |-> FALSE]
  ELSE IF TrimsToEmpty(lines[i]) THEN ProcessLines(lines, i + 1, full, out)
  ELSE LET parsedChunk == JsonParse(lines[i]) IN
    IF ~parsedChunk.ok THEN [full |-> full, out |-> out, threw |-> TRUE]
    ELSE IF parsedChunk.response # <<>>
    THEN ProcessLines(lines, i + 1, full \o parsedChunk.response, Append(out, parsedChunk.response))
    ELSE ProcessLines(lines, i + 1, full, out)

\* every chunk is read by itself: nothing is kept from one chunk to the next
OnDataUnbuffered(fullResponse, jsonBuffer, chunk) ==
  LET lines == SplitLines(chunk, 1, <<>>)
      r == ProcessLines(lines, 1, fullResponse, <<>>)
  IN [fullResponse |-> r.full, jsonBuffer |-> <<>>, out |-> r.out]

\* the fragments are relayed but not added to fullResponse
OnDataRelayingOnly(fullResponse, jsonBuffer, chunk) ==
  LET buf == jsonBuffer \o chunk
      lines == SplitLines(buf, 1, <<>>)
      r == ProcessLines(lines, 1, fullResponse, <<>>)
  IN [fullResponse |-> fullResponse,
      jsonBuffer |-> IF r.threw THEN buf ELSE lines[Len(lines)],
      out |-> r.out]

\* response.data.on("data"): the new fullResponse and jsonBuffer and the
\* fragments relayed
OnData(fullResponse, jsonBuffer, chunk) ==
  LET buf == jsonBuffer \o chunk
      lines == SplitLines(buf, 1, <<>>)
      r == ProcessLines(lines, 1, fullResponse, <<>>)
  IN [fullResponse |-> r.full,
      jsonBuffer |-> IF r.threw THEN buf ELSE lines[Len(lines)],
      out |-> r.out]

\* the first part of response.data.on("end"): what is left in the buffer
OnEndRemainder(fullResponse, jsonBuffer) ==
  LET parsedChunk == JsonParse(jsonBuffer) IN
  IF ~TrimsToEmpty(jsonBuffer) /\ parsedChunk.ok /\ parsedChunk.response # <<>>
  THEN [fullResponse |-> fullResponse \o parsedChunk.response, out |-> <<parsedChunk.response>>]
  ELSE [fullResponse |-> fullResponse, out |-> <<>>]

\* the bodies the inference endpoint may send; a body reaches the handlers in
\* chunks, cut anywhere
Bodies ==
  { <<>>,
    \* one record and its newline
    <<OpenRecord, "a", ".", CloseRecord, "\n">>,
    \* two records, the last one without a newline after it
    <<OpenRecord, "a", ".", CloseRecord, "\n", OpenRecord, BT, "b", BT, CloseRecord>>,
    \* a record with an empty response, then a record
    <<OpenRecord, CloseRecord, "\n", OpenRecord, "a", CloseRecord, "\n">>,
    \* a line that is no JSON text between two records
    <<OpenRecord, "a", CloseRecord, "\n", "x", "\n", OpenRecord, "b", CloseRecord, "\n">> }

(***************************************************************************)
(* What a handler does, in order: the events written to the response, the  *)
(* reply sent, the calls of axios.post and of saveResponse.                *)
(***************************************************************************)
\* the metadata event written as one more data event
MetadataEventAsData(title, language, languageDisplay, fromCache) ==
  [k |-> "data", text |-> <<title>>, fallback |-> FALSE]

\* the metadata event saying fromCache: true whatever the path
MetadataEventAlwaysFromCache(title, language, languageDisplay, fromCache) ==
  [k |-> "metadata", title |-> title, language |-> language,
   languageDisplay |-> languageDisplay, fromCache |-> TRUE]

MetadataEvent(title, language, languageDisplay, fromCache) ==
  [k |-> "metadata", title |-> title, language |-> language,
   languageDisplay |-> languageDisplay, fromCache |-> fromCache]
\* a data event that never says fallback: true
DataEventUntagged(text, fallback) == [k |-> "data", text |-> text, fallback |-> FALSE]

DataEvent(text, fallback) == [k |-> "data", text |-> text, fallback |-> fallback]
CompleteEvent == [k |-> "complete"]
\* the error is written to the client as a data event
ErrorEventAsData(message) == [k |-> "data", text |-> message, fallback |-> FALSE]

ErrorEvent(message) == [k |-> "error", error |-> message]
\* res.status(status).send(body)
SendOp(status, body) == [k |-> "send", status |-> status, body |-> body]
PostOp(language) == [k |-> "post", language |-> language]
SaveOp(questionIndex, language, text, ok) ==
  [k |-> "save", questionIndex |-> questionIndex, language |-> language, text |-> text, ok |-> ok]

RECURSIVE DataEvents(_)
DataEvents(frags) ==
  IF frags = <<>> THEN <<>> ELSE <<DataEvent(Head(frags), FALSE)>> \o DataEvents(Tail(frags))

\* the stored record is served however the request asks for a refresh
CacheHitIgnoringRefresh(forceRefresh, storedResponse, index, normalizedLang) ==
  /\ storedResponse # <<>>
  /\ StrictEq(storedResponse[1].questionIndex, index)
  /\ storedResponse[1].language = normalizedLang

\* the stored record is served whatever its language
CacheHitIgnoringLanguage(forceRefresh, storedResponse, index, normalizedLang) ==
  /\ ~forceRefresh
  /\ storedResponse # <<>>
  /\ StrictEq(storedResponse[1].questionIndex, index)

\* the stored record is served whatever its index
CacheHitIgnoringIndex(forceRefresh, storedResponse, index, normalizedLang) ==
  /\ ~forceRefresh
  /\ storedResponse # <<>>
  /\ storedResponse[1].language = normalizedLang

\* the stored record is never served
CacheHitNever(forceRefresh, storedResponse, index, normalizedLang) == FALSE

\* the cache check: !forceRefresh && storedResponse &&
\* storedResponse.questionIndex === index && storedResponse.language === normalizedLang
CacheHit(forceRefresh, storedResponse, index, normalizedLang) ==
  /\ ~forceRefresh
  /\ storedResponse # <<>>
  /\ StrictEq(storedResponse[1].questionIndex, index)
  /\ storedResponse[1].language = normalizedLang

\* the store is looked up before the catalog is: a stored record with the index
\* and the language of the request is served though the index names no problem
PreambleCacheFirst(v, rawIndex, rawLanguage, rawRefresh, catalogOk, st, readOk) ==
  LET questions == IF catalogOk THEN Catalog ELSE <<>>
      index == IF rawIndex # Absent /\ rawIndex # Given("") THEN ParseInt(rawIndex[1]) ELSE Num(0)
      forceRefresh == rawRefresh = Given("true")
      language == IF v = "lenient" /\ Falsy(rawLanguage) THEN Given(DEFAULT_LANGUAGE) ELSE rawLanguage
      lang == validateLanguage(v, language)
      normalizedLang == lang.value
      langDisplayName == getLanguageDisplayName(v, normalizedLang)
      found == ~index.nan /\ index.n >= 0 /\ index.n < Len(questions)
      question == IF found THEN questions[index.n + 1] ELSE [title |-> "", difficulty |-> ""]
      storedResponse == loadStoredResponse(st, readOk)
      base == [questions |-> Len(questions), index |-> index, forceRefresh |-> forceRefresh,
               normalizedLang |-> normalizedLang,
               langDisplayName |-> langDisplayName, question |-> question,
               stored |-> <<>>, error |-> <<>>]
  IN IF Len(questions) = 0
     THEN [base EXCEPT !.error = <<"Failed to load questions data">>] @@ [kind |-> "catalogError"]
     ELSE IF ~lang.ok
     THEN [base EXCEPT !.error = lang.error] @@ [kind |-> "languageError"]
     ELSE IF CacheHit(forceRefresh, storedResponse, index, normalizedLang)
     THEN [base EXCEPT !.stored = storedResponse] @@ [kind |-> "cacheHit"]
     ELSE IF ~found
     THEN [base EXCEPT !.error = <<"Question not found at index ", index>>] @@ [kind |-> "notFound"]
     ELSE [base EXCEPT !.stored = storedResponse] @@ [kind |-> "generate"]

\* the handler up to its cache check, the same in /explain-stream and /explain
Preamble(v, rawIndex, rawLanguage, rawRefresh, catalogOk, st, readOk) ==
  LET questions == IF catalogOk THEN Catalog ELSE <<>>
      index == IF rawIndex # Absent /\ rawIndex # Given("") THEN ParseInt(rawIndex[1]) ELSE Num(0)
      forceRefresh == rawRefresh = Given("true")
      language == IF v = "lenient" /\ Falsy(rawLanguage) THEN Given(DEFAULT_LANGUAGE) ELSE rawLanguage
      lang == validateLanguage(v, language)
      normalizedLang == lang.value
      langDisplayName == getLanguageDisplayName(v, normalizedLang)
      found == ~index.nan /\ index.n >= 0 /\ index.n < Len(questions)
      question == IF found THEN questions[index.n + 1] ELSE [title |-> "", difficulty |-> ""]
      storedResponse == loadStoredResponse(st, readOk)
      base == [questions |-> Len(questions), index |-> index, forceRefresh |-> forceRefresh,
               normalizedLang |-> normalizedLang,
               langDisplayName |-> langDisplayName, question |-> question,
               stored |-> <<>>, error |-> <<>>]
  IN IF Len(questions) = 0
     THEN [base EXCEPT !.error = <<"Failed to load questions data">>] @@ [kind |-> "catalogError"]
     ELSE IF ~lang.ok
     THEN [base EXCEPT !.error = lang.error] @@ [kind |-> "languageError"]
     ELSE IF ~found
     THEN [base EXCEPT !.error = <<"Question not found at index ", index>>] @@ [kind |-> "notFound"]
     ELSE IF CacheHit(forceRefresh, storedResponse, index, normalizedLang)
     THEN [base EXCEPT !.stored = storedResponse] @@ [kind |-> "cacheHit"]
     ELSE [base EXCEPT !.stored = storedResponse] @@ [kind |-> "generate"]


(***************************************************************************)
(* The state: which server variant runs, the store file, and the requests  *)
(* (one per slot; a slot is released when its request is over and then     *)
(* takes the next request).                                                *)
(***************************************************************************)
VARIABLES variant, store, req

vars == <<variant, store, req>>

\* a request: where its handler is (pc), the handler's locals, what it has done
\* so far (trace), and the body the inference endpoint sends it, of which the
\* first delivered characters have reached the handlers; rawLanguage,
\* forceRefresh and storedResponse, which the handler does not read after its
\* cache check, are kept until axios.post settles; connected says that the
\* client's connection is open
IdleReq ==
  [pc |-> "idle", endpoint |-> "none", questions |-> 0, index |-> Num(0),
   rawLanguage |-> Absent, normalizedLang |-> "", forceRefresh |-> FALSE,
   storedResponse |-> <<>>, trace |-> <<>>,
   fullResponse |-> <<>>, jsonBuffer |-> <<>>, body |-> Absent, delivered |-> 0,
   connected |-> TRUE]

\* the request is over: the response is ended ("closed"), or the handler is
\* over and has sent no reply ("hung")
Over(r) == r.pc \in {"closed", "hung"}

QuestionOf(r) == Catalog[r.index.n + 1]

\* the JSON body of a 200 reply of /explain; language and languageDisplay are
\* Absent when the body has no such field, the flags FALSE when it has none
Body(title, language, languageDisplay, response, fromCache, fallback) ==
  [title |-> title, language |-> language, languageDisplay |-> languageDisplay,
   response |-> response, fromCache |-> fromCache, fallback |-> fallback]

\* app.get("/explain-stream"), up to the await of axios.post: the request after it
ExplainStreamStart(v, st, rawIndex, rawLanguage, rawRefresh, catalogOk, readOk) ==
  LET d == Preamble(v, rawIndex, rawLanguage, rawRefresh, catalogOk, st, readOk)
      head == [IdleReq EXCEPT !.endpoint = "stream", !.questions = d.questions,
                              !.index = d.index, !.rawLanguage = rawLanguage,
                              !.storedResponse = d.stored,
                              !.normalizedLang = d.normalizedLang,
                              !.forceRefresh = d.forceRefresh]
  IN IF d.kind \in {"catalogError", "languageError", "notFound"}
     THEN [head EXCEPT !.pc = "closed", !.trace = <<ErrorEvent(d.error)>>]
     ELSE IF d.kind = "cacheHit"
     THEN [head EXCEPT !.pc = "closed",
                       !.trace = <<MetadataEvent(d.question.title, d.normalizedLang,
                                                 d.langDisplayName, TRUE),
                                   DataEvent(d.stored[1].response, FALSE),
                                   CompleteEvent>>]
     ELSE [head EXCEPT !.pc = "awaitPost",
                       !.trace = <<MetadataEvent(d.question.title, d.normalizedLang,
                                                 d.langDisplayName, FALSE),
                                   PostOp(d.normalizedLang)>>]

\* app.get("/explain"), up to the await of axios.post: the request after it
ExplainStart(v, st, rawIndex, rawLanguage, rawRefresh, catalogOk, readOk) ==
  LET d == Preamble(v, rawIndex, rawLanguage, rawRefresh, catalogOk, st, readOk)
      head == [IdleReq EXCEPT !.endpoint = "explain", !.questions = d.questions,
                              !.index = d.index, !.rawLanguage = rawLanguage,
                              !.storedResponse = d.stored,
                              !.normalizedLang = d.normalizedLang,
                              !.forceRefresh = d.forceRefresh]
  IN IF d.kind = "catalogError"
     THEN [head EXCEPT !.pc = "closed", !.trace = <<SendOp(500, d.error)>>]
     ELSE IF d.kind = "languageError"
     THEN [head EXCEPT !.pc = "closed", !.trace = <<SendOp(400, d.error)>>]
     ELSE IF d.kind = "notFound"
     THEN [head EXCEPT !.pc = "closed",
                       !.trace = <<SendOp(404, d.error \o <<". Total questions: ", d.questions>>)>>]
     ELSE IF d.kind = "cacheHit"
     THEN [head EXCEPT !.pc = "closed",
                       !.trace = <<SendOp(200, Body(d.question.title, Given(d.normalizedLang),
                                                    Given(d.langDisplayName),
                                                    d.stored[1].response, TRUE, FALSE))>>]
     ELSE [head EXCEPT !.pc = "awaitPost", !.trace = <<PostOp(d.normalizedLang)>>]

\* axios.post resolved: the handlers of "data", "end" and "error" are set on the
\* body
BodyStarts(r, body) ==
  [r EXCEPT !.pc = "streaming", !.rawLanguage = Absent, !.forceRefresh = FALSE,
            !.storedResponse = <<>>, !.body = Given(body)]

\* catch (apiError): the fallback is generated, saved and sent; the request and
\* the store after it
Fallback(v, st, r, write) ==
  LET question == QuestionOf(r) IN
  With(generateFallbackResponse(v, question, r.normalizedLang), LAMBDA fallbackResponse :
  With(saveResponse(v, st, r.index, question.title, fallbackResponse,
                    Given(r.normalizedLang), write), LAMBDA sv :
  With(SaveOp(r.index, Given(r.normalizedLang), fallbackResponse, sv.ok), LAMBDA saved :
    [req |-> [r EXCEPT !.pc = "closed",
                       !.rawLanguage = Absent, !.forceRefresh = FALSE,
                       !.storedResponse = <<>>,
                       !.trace =
                         IF r.endpoint = "stream"
                         THEN r.trace \o <<saved, DataEvent(fallbackResponse, TRUE), CompleteEvent>>
                         ELSE r.trace \o <<saved,
                                SendOp(200, Body(question.title, Given(r.normalizedLang),
                                                 Given(getLanguageDisplayName(v, r.normalizedLang)),
                                                 fallbackResponse, FALSE, TRUE))>>],
     store |-> sv.store])))

\* response.data.on("data") on a chunk: the request after it
BodyData(r, chunk) ==
  LET d == OnData(r.fullResponse, r.jsonBuffer, chunk)
  IN [r EXCEPT !.fullResponse = d.fullResponse,
               !.jsonBuffer = d.jsonBuffer,
               !.delivered = r.delivered + Len(chunk),
               !.trace = IF r.endpoint = "stream" THEN r.trace \o DataEvents(d.out)
                         ELSE r.trace]

\* response.data.on("end"): the request and the store after it
BodyEnd(v, st, r, write) ==
  LET question == QuestionOf(r)
      \* the lenient /explain calls saveResponse without the language
      language == IF v = "lenient" /\ r.endpoint = "explain"
                  THEN Absent ELSE Given(r.normalizedLang)
  IN
  With(OnEndRemainder(r.fullResponse, r.jsonBuffer), LAMBDA e :
  With(saveResponse(v, st, r.index, question.title, e.fullResponse, language, write),
       LAMBDA sv :
  With(SaveOp(r.index, language, e.fullResponse, sv.ok), LAMBDA saved :
    [req |-> [r EXCEPT !.pc = "closed",
                       !.fullResponse = e.fullResponse,
                       !.trace =
                         IF r.endpoint = "stream"
                         THEN r.trace \o DataEvents(e.out) \o <<saved, CompleteEvent>>
                         ELSE IF v = "strict"
                         THEN r.trace \o <<saved,
                                SendOp(200, Body(question.title, Given(r.normalizedLang),
                                                 Given(getLanguageDisplayName(v, r.normalizedLang)),
                                                 e.fullResponse, FALSE, FALSE))>>
                         ELSE r.trace \o <<saved,
                                SendOp(200, Body(question.title, Absent, Absent,
                                                 e.fullResponse, FALSE, FALSE))>>],
     store |-> sv.store])))

\* the error of the body is dropped: nothing is written and the response is
\* never ended
BodyErrorNeverEnding(r) == [r EXCEPT !.pc = "hung"]

\* response.data.on("error") of /explain-stream: the error is written to the
\* client; the request after it
BodyError(r) ==
  [r EXCEPT !.pc = "closed", !.trace = r.trace \o <<ErrorEvent(<<"err.message">>)>>]

\* response.data.on("error") of the lenient /explain: reject(err) rejects the
\* promise the handler returned without awaiting it, which no catch sees; the
\* request after it (in the strict /explain reject(err) is caught by the await
\* of responsePromise: catch (apiError))
BodyErrorUnseen(r) == [r EXCEPT !.pc = "hung"]

\* the chunks that may come next: the beginnings of what is left of the body
NextChunks(r) ==
  {SubSeq(r.body[1], r.delivered + 1, r.delivered + n) : n \in 1..(Len(r.body[1]) - r.delivered)}

Init ==
  /\ variant \in {"strict", "lenient"}
  /\ store = <<>>
  /\ req = [s \in {1} |-> IdleReq]

\* a request of /explain-stream arrives
ExplainStreamRequest(s) ==
  /\ req[s].pc = "idle"
  /\ \E rawIndex \in RawIndexes, rawLanguage \in RawLanguages, rawRefresh \in RawRefreshes,
        catalogOk \in BOOLEAN, readOk \in BOOLEAN :
       req' = [req EXCEPT ![s] = ExplainStreamStart(variant, store, rawIndex, rawLanguage,
                                                    rawRefresh, catalogOk, readOk)]
  /\ UNCHANGED <<variant, store>>

\* a request of /explain arrives
ExplainRequest(s) ==
  /\ req[s].pc = "idle"
  /\ \E rawIndex \in RawIndexes, rawLanguage \in RawLanguages, rawRefresh \in RawRefreshes,
        catalogOk \in BOOLEAN, readOk \in BOOLEAN :
       req' = [req EXCEPT ![s] = ExplainStart(variant, store, rawIndex, rawLanguage,
                                              rawRefresh, catalogOk, readOk)]
  /\ UNCHANGED <<variant, store>>

\* axios.post resolves: the inference endpoint answered with a success status
\* and its body starts
PostResolves(s) ==
  /\ req[s].pc = "awaitPost"
  /\ \E body \in Bodies : req' = [req EXCEPT ![s] = BodyStarts(req[s], body)]
  /\ UNCHANGED <<variant, store>>

\* the error of axios.post is written to the client as an error event
FallbackReplyAsError(s, write) ==
  /\ req' = [req EXCEPT ![s].pc = "closed",
                        ![s].rawLanguage = Absent, ![s].forceRefresh = FALSE,
                        ![s].storedResponse = <<>>,
                        ![s].trace = req[s].trace \o <<[k |-> "error", error |-> <<"apiError.message">>]>>]
  /\ UNCHANGED <<variant, store>>

\* catch (apiError) in the request of slot s
FallbackReply(s, write) ==
  /\ \E f \in {Fallback(variant, store, req[s], write)} :
       /\ req' = [req EXCEPT ![s] = f.req]
       /\ store' = f.store
  /\ UNCHANGED variant

\* axios.post rejects: connection refused, timeout or a non-success status
PostRejects(s) ==
  /\ req[s].pc = "awaitPost"
  /\ \E write \in WriteOutcomes : FallbackReply(s, write)

\* fullResponse and jsonBuffer are shared by the requests in flight: the
\* handler of one request goes on from what the other one left in them
StreamDataSharedBuffers(s) ==
  /\ req[s].pc = "streaming"
  /\ \E chunk \in NextChunks(req[s]) :
       req' = [req EXCEPT ![s] = BodyData([req[s] EXCEPT
                                            !.fullResponse = req[3 - s].fullResponse,
                                            !.jsonBuffer = req[3 - s].jsonBuffer],
                                          chunk)]
  /\ UNCHANGED <<variant, store>>

\* response.data.on("data")
StreamData(s) ==
  /\ req[s].pc = "streaming"
  /\ \E chunk \in NextChunks(req[s]) : req' = [req EXCEPT ![s] = BodyData(req[s], chunk)]
  /\ UNCHANGED <<variant, store>>

\* response.data.on("end"), once the whole body was delivered
StreamEnd(s) ==
  /\ req[s].pc = "streaming"
  /\ req[s].delivered = Len(req[s].body[1])
  /\ \E write \in WriteOutcomes :
       \E e \in {BodyEnd(variant, store, req[s], write)} :
         /\ req' = [req EXCEPT ![s] = e.req]
         /\ store' = e.store
  /\ UNCHANGED variant

\* the error is written to the client and the response is left open
StreamErrorStreamLeftOpen(s) ==
  /\ req[s].pc = "streaming"
  /\ req[s].endpoint = "stream"
  /\ req[s].trace = <<>> \/ req[s].trace[Len(req[s].trace)].k # "error"
  /\ req' = [req EXCEPT ![s].trace = req[s].trace \o <<[k |-> "error", error |-> <<"err.message">>]>>]
  /\ UNCHANGED <<variant, store>>

\* response.data.on("error") of /explain-stream
StreamErrorStream(s) ==
  /\ req[s].pc = "streaming"
  /\ req[s].endpoint = "stream"
  /\ req' = [req EXCEPT ![s] = BodyError(req[s])]
  /\ UNCHANGED <<variant, store>>

\* response.data.on("error") of the strict /explain
StreamErrorExplainStrict(s) ==
  /\ req[s].pc = "streaming"
  /\ req[s].endpoint = "explain"
  /\ variant = "strict"
  /\ \E write \in WriteOutcomes : FallbackReply(s, write)

\* response.data.on("error") of the lenient /explain
StreamErrorExplainLenient(s) ==
  /\ req[s].pc = "streaming"
  /\ req[s].endpoint = "explain"
  /\ variant = "lenient"
  /\ req' = [req EXCEPT ![s] = BodyErrorUnseen(req[s])]
  /\ UNCHANGED <<variant, store>>

\* the request of a slot is over and forgotten: the slot is free again
Release(s) ==
  /\ Over(req[s])
  /\ req' = [req EXCEPT ![s] = IdleReq]
  /\ UNCHANGED <<variant, store>>

\* the sentinel record is written whether or not there is a store file
ClearCacheCreating(s) ==
  /\ variant = "lenient"
  /\ req[s].pc = "idle"
  /\ store' = <<emptyResponse>>
  /\ req' = [req EXCEPT ![s] =
       [IdleReq EXCEPT !.endpoint = "clear", !.pc = "closed",
                       !.trace = <<SendOp(200, <<"Response cache cleared successfully">>)>>]]
  /\ UNCHANGED variant

\* app.delete("/clear-cache"), which only the lenient variant has: a file
\* that exists may be empty
ClearCache(s) ==
  /\ variant = "lenient"
  /\ req[s].pc = "idle"
  /\ \E write \in WriteOutcomes :
       LET head == [IdleReq EXCEPT !.endpoint = "clear", !.pc = "closed"] IN
       IF store # <<>>
       THEN IF write = "written"
            THEN /\ store' = <<emptyResponse>>
                 /\ req' = [req EXCEPT ![s] =
                      [head EXCEPT !.trace = <<SendOp(200, <<"Response cache cleared successfully">>)>>]]
            ELSE /\ store' = (IF write = "truncated" THEN <<EmptyFile>> ELSE store)
                 /\ req' = [req EXCEPT ![s] =
                      [head EXCEPT !.trace = <<SendOp(500, <<"Failed to clear cache: ", "error.message">>)>>]]
       ELSE /\ store' = store
            /\ req' = [req EXCEPT ![s] =
                 [head EXCEPT !.trace = <<SendOp(404, <<"No cache file found">>)>>]]
  /\ UNCHANGED variant

Next ==
  \/ \E s \in DOMAIN req : ExplainStreamRequest(s)
  \/ \E s \in DOMAIN req : ExplainRequest(s)
  \/ \E s \in DOMAIN req : PostResolves(s)
  \/ \E s \in DOMAIN req : PostRejects(s)
  \/ \E s \in DOMAIN req : StreamData(s)
  \/ \E s \in DOMAIN req : StreamEnd(s)
  \/ \E s \in DOMAIN req : StreamErrorStream(s)
  \/ \E s \in DOMAIN req : StreamErrorExplainStrict(s)
  \/ \E s \in DOMAIN req : StreamErrorExplainLenient(s)
  \/ \E s \in DOMAIN req : ClearCache(s)
  \/ \E s \in DOMAIN req : Release(s)

Spec == Init /\ [][Next]_vars

(***************************************************************************)
(* What the properties below speak of.                                     *)
(***************************************************************************)
\* the events of a trace: what the client of /explain-stream receives, in order
EventsOf(tr) == SelectSeq(tr, LAMBDA e : e.k \in {"metadata", "data", "complete", "error"})
\* the positions of a sequence of trace entries that hold an entry of kind k
Where(tr, k) == {j \in DOMAIN tr : tr[j].k = k}
\* the request of slot s started in this step
Starts(s) == req[s].pc = "idle" /\ req'[s].pc # "idle"
\* the request passed its validation: the catalog was loaded, the language was
\* accepted and the index names a problem of the catalog
Validated(r) ==
  /\ r.questions > 0
  /\ r.normalizedLang \in Supported
  /\ ~r.index.nan /\ r.index.n >= 0 /\ r.index.n < r.questions
\* the store holds a record for the index of request r
\* the file of the store holds a record
HasRecord(st) == loadStoredResponse(st, TRUE) # <<>>

StoreHasIndexOf(r) == HasRecord(store) /\ StrictEq(store[1].questionIndex, r.index)

(***************************************************************************)
(* C1: in every /explain-stream response, of either variant, there is at   *)
(* most one metadata event, and every data event comes after a metadata    *)
(* event.                                                                  *)
(***************************************************************************)
C1_OneMetadataBeforeData ==
  \A s \in DOMAIN req : req[s].endpoint = "stream" =>
    LET ev == EventsOf(req[s].trace) IN
      /\ Cardinality(Where(ev, "metadata")) <= 1
      /\ \A j \in Where(ev, "data") : \E m \in Where(ev, "metadata") : m < j

\* a stream that is over with its metadata event and two data events
C1_Witness ==
  \E s \in DOMAIN req :
    /\ req[s].endpoint = "stream" /\ req[s].pc = "closed"
    /\ Cardinality(Where(EventsOf(req[s].trace), "data")) >= 2
    /\ Cardinality(Where(EventsOf(req[s].trace), "metadata")) = 1

(***************************************************************************)
(* C2: a terminal event (complete or error) of an /explain-stream response *)
(* is the last thing of the response, a response that is ended has one,    *)
(* and a response that is not ended has none: so every ended response has  *)
(* exactly one terminal event and nothing after it.                        *)
(***************************************************************************)
C2_OneTerminalEventLast ==
  \A s \in DOMAIN req : req[s].endpoint = "stream" =>
    LET ev == EventsOf(req[s].trace)
        terminals == Where(ev, "complete") \cup Where(ev, "error")
    IN /\ \A j \in terminals : j = Len(ev)
       /\ (req[s].pc = "closed") <=> (terminals # {})

\* a stream ended by an error event after a fragment was relayed
C2_Witness ==
  \E s \in DOMAIN req :
    /\ req[s].endpoint = "stream" /\ req[s].pc = "closed"
    /\ Where(EventsOf(req[s].trace), "data") # {}
    /\ Where(EventsOf(req[s].trace), "error") = {Len(EventsOf(req[s].trace))}

(***************************************************************************)
(* C3: an /explain-stream request that passes validation without refresh,  *)
(* when the store (which the request reads) holds a record with the index  *)
(* and the validated language of the request, emits exactly: metadata with *)
(* fromCache true, one data event with the stored text as it is, complete. *)
(***************************************************************************)
C3_CacheHitSequence ==
  [][\A s \in DOMAIN req :
       (/\ Starts(s)
        /\ req'[s].endpoint = "stream"
        /\ Validated(req'[s])
        /\ ~req'[s].forceRefresh
        /\ StoreHasIndexOf(req'[s])
        /\ store[1].language = req'[s].normalizedLang
        /\ req'[s].storedResponse = store)
       => /\ req'[s].pc = "closed"
          /\ req'[s].trace =
               << [k |-> "metadata", title |-> Catalog[req'[s].index.n + 1].title,
                   language |-> req'[s].normalizedLang,
                   languageDisplay |-> getLanguageDisplayName(variant, req'[s].normalizedLang),
                   fromCache |-> TRUE],
                  [k |-> "data", text |-> store[1].response, fallback |-> FALSE],
                  [k |-> "complete"] >>]_vars

\* a stream served from the store with a text that is not empty
C3_Witness ==
  \E s \in DOMAIN req :
    /\ req[s].endpoint = "stream" /\ req[s].pc = "closed"
    /\ Len(req[s].trace) = 3
    /\ req[s].trace[1].k = "metadata" /\ req[s].trace[1].fromCache
    /\ req[s].trace[2].k = "data" /\ req[s].trace[2].text # <<>>
    /\ HasRecord(store) /\ req[s].trace[2].text = store[1].response

(***************************************************************************)
(* C4: a request served as a cache hit, on /explain-stream or on /explain, *)
(* is over at once, has made no call to the inference endpoint and no      *)
(* save, and leaves the store as it was.                                   *)
(***************************************************************************)
ServedFromCache(r) ==
  \/ \E j \in Where(r.trace, "metadata") : r.trace[j].fromCache
  \/ \E j \in Where(r.trace, "send") : r.trace[j].status = 200 /\ r.endpoint = "explain"
                                       /\ r.trace[j].body.fromCache

C4_CacheHitShortCircuits ==
  [][\A s \in DOMAIN req :
       (Starts(s) /\ ServedFromCache(req'[s]))
       => /\ req'[s].pc = "closed"
          /\ Where(req'[s].trace, "post") = {}
          /\ Where(req'[s].trace, "save") = {}
          /\ store' = store]_vars

\* an /explain request answered from the store
C4_Witness ==
  \E s \in DOMAIN req :
    /\ req[s].endpoint = "explain" /\ req[s].pc = "closed"
    /\ ServedFromCache(req[s])
    /\ HasRecord(store) /\ req[s].trace[1].body.response = store[1].response

(***************************************************************************)
(* C5: a request that passes validation for index i and language L2, when  *)
(* the store holds a record for i with another language L1, is not         *)
(* answered from the store, whatever its refresh flag: /explain-stream     *)
(* emits metadata with fromCache false, and the inference endpoint is      *)
(* called.                                                                 *)
(***************************************************************************)
C5_LanguageChangeMisses ==
  [][\A s \in DOMAIN req :
       (/\ Starts(s)
        /\ req'[s].endpoint \in {"stream", "explain"}
        /\ Validated(req'[s])
        /\ StoreHasIndexOf(req'[s])
        /\ store[1].language # req'[s].normalizedLang)
       => /\ req'[s].pc = "awaitPost"
          /\ ~ServedFromCache(req'[s])
          /\ req'[s].trace[Len(req'[s].trace)] = [k |-> "post", language |-> req'[s].normalizedLang]
          /\ req'[s].endpoint = "stream" =>
               /\ Len(req'[s].trace) = 2
               /\ req'[s].trace[1].k = "metadata" /\ ~req'[s].trace[1].fromCache]_vars

\* a request without refresh that waits for the inference endpoint while the
\* store holds a text for its index in another language
C5_Witness ==
  \E s \in DOMAIN req :
    /\ req[s].pc = "awaitPost" /\ req[s].endpoint = "stream"
    /\ ~req[s].forceRefresh
    /\ req[s].storedResponse # <<>> /\ req[s].storedResponse = store
    /\ StrictEq(store[1].questionIndex, req[s].index)
    /\ store[1].language # req[s].normalizedLang
    /\ store[1].response # <<>>

(***************************************************************************)
(* The end of a generation: the step in which a request that called the    *)
(* inference endpoint is answered, and the save of that step.              *)
(***************************************************************************)
\* the request of slot s, which called the inference endpoint, ends in this step
\* with a complete event (/explain-stream) or a 200 reply (/explain)
Completes(s, endpoint) ==
  /\ req[s].pc \in {"awaitPost", "streaming"}
  /\ req'[s].pc = "closed"
  /\ req'[s].endpoint = endpoint
  /\ LET last == req'[s].trace[Len(req'[s].trace)]
     IN IF endpoint = "stream" THEN last.k = "complete"
        ELSE last.k = "send" /\ last.status = 200
\* the last save of a trace that has one
LastSave(tr) == tr[CHOOSE j \in Where(tr, "save") : \A m \in Where(tr, "save") : m <= j]
\* the store holds the sanitized text for the index and the language of request r
Holds(st, v, r, text) ==
  /\ HasRecord(st)
  /\ StrictEq(st[1].questionIndex, r.index)
  /\ st[1].language = r.normalizedLang
  /\ st[1].response = cleanResponseText(v, text)
\* a request with refresh=true that passes validation starts a generation:
\* /explain-stream emits metadata with fromCache false and calls the inference
\* endpoint
RefreshGenerates(s) ==
  (/\ Starts(s)
   /\ req'[s].endpoint = "stream"
   /\ Validated(req'[s])
   /\ req'[s].forceRefresh)
  => /\ req'[s].pc = "awaitPost"
     /\ Len(req'[s].trace) = 2
     /\ req'[s].trace[1].k = "metadata" /\ ~req'[s].trace[1].fromCache
     /\ req'[s].trace[2] = [k |-> "post", language |-> req'[s].normalizedLang]

(***************************************************************************)
(* C6, as amended: a request with refresh=true is never served from the    *)
(* store, even when the stored record has its index and language: it emits *)
(* metadata with fromCache false and calls the inference endpoint; and     *)
(* when a generation on /explain-stream (asked for with refresh or not)    *)
(* completes, the stored record is overwritten if the save succeeds; if    *)
(* the save fails the file is left as it was or is left empty.             *)
(***************************************************************************)
C6_RefreshRegeneratesAndSaves ==
  [][\A s \in DOMAIN req :
       /\ RefreshGenerates(s)
       /\ Completes(s, "stream") =>
            /\ Where(req'[s].trace, "save") # {}
            /\ IF LastSave(req'[s].trace).ok
               THEN Holds(store', variant, req'[s], LastSave(req'[s].trace).text)
               ELSE store' \in {store, <<EmptyFile>>}]_vars

\* a request with refresh=true that waits for the inference endpoint while the
\* store holds a record with its index and language
C6_Witness ==
  \E s \in DOMAIN req :
    /\ req[s].pc = "awaitPost" /\ req[s].endpoint = "stream"
    /\ req[s].forceRefresh
    /\ req[s].storedResponse # <<>> /\ req[s].storedResponse = store
    /\ StrictEq(store[1].questionIndex, req[s].index)
    /\ store[1].language = req[s].normalizedLang

\* C6 as it was stated: on completion the stored record is overwritten
C6_Original ==
  [][\A s \in DOMAIN req :
       /\ RefreshGenerates(s)
       /\ Completes(s, "stream") =>
            /\ Where(req'[s].trace, "save") # {}
            /\ Holds(store', variant, req'[s], LastSave(req'[s].trace).text)]_vars

(***************************************************************************)
(* C7: when a generation on /explain-stream completes, with the text of    *)
(* the model or with the fallback, and its save succeeds, the stored       *)
(* record right after it has the index of the request as questionIndex and *)
(* the validated language of the request as language.                      *)
(***************************************************************************)
C7_StreamSaveKey ==
  [][\A s \in DOMAIN req :
       (/\ Completes(s, "stream")
        /\ Where(req'[s].trace, "save") # {}
        /\ LastSave(req'[s].trace).ok)
       => /\ HasRecord(store')
          /\ StrictEq(store'[1].questionIndex, req'[s].index)
          /\ store'[1].language = req'[s].normalizedLang
          /\ store'[1].language \in Supported]_vars

\* a stream of java that completed with the text of the model and saved it
C7_Witness ==
  \E s \in DOMAIN req :
    /\ req[s].endpoint = "stream" /\ req[s].pc = "closed"
    /\ req[s].normalizedLang = "java"
    /\ Where(req[s].trace, "complete") # {}
    /\ Where(req[s].trace, "save") # {} /\ LastSave(req[s].trace).ok
    /\ \E j \in Where(req[s].trace, "data") : ~req[s].trace[j].fallback
    /\ HasRecord(store) /\ store[1].language = "java"
    /\ StrictEq(store[1].questionIndex, req[s].index)

(***************************************************************************)
(* C8, as stated: when a generation on /explain completes, in either       *)
(* variant, and its save succeeds, the stored record right after it has    *)
(* the index of the request as questionIndex and the validated language of *)
(* the request as language. The lenient /explain breaks it.                *)
(***************************************************************************)
C8_ExplainSaveKey ==
  [][\A s \in DOMAIN req :
       (/\ Completes(s, "explain")
        /\ Where(req'[s].trace, "save") # {}
        /\ LastSave(req'[s].trace).ok)
       => /\ HasRecord(store')
          /\ StrictEq(store'[1].questionIndex, req'[s].index)
          /\ store'[1].language = req'[s].normalizedLang]_vars

(***************************************************************************)
(* The failure of the inference call before its body starts: the step in   *)
(* which axios.post rejects in an /explain-stream request, and what the    *)
(* claim says the response and the trace are then.                         *)
(***************************************************************************)
PostFails(s) ==
  /\ req[s].pc = "awaitPost"
  /\ req[s].endpoint = "stream"
  /\ req'[s].pc = "closed"
\* metadata with fromCache false, one data event with the text of the Fallback
\* Generator and fallback true, complete; no error event; a save of that text
\* for (index, language) that comes before the data event
FallbackSequence(s) ==
  LET r == req'[s]
      text == generateFallbackResponse(variant, Catalog[r.index.n + 1], r.normalizedLang)
      ev == EventsOf(r.trace)
  IN /\ Len(ev) = 3
     /\ ev[1].k = "metadata" /\ ~ev[1].fromCache
     /\ ev[2] = [k |-> "data", text |-> text, fallback |-> TRUE]
     /\ ev[3] = [k |-> "complete"]
     /\ Where(r.trace, "save") # {}
     /\ \A j \in Where(r.trace, "save") : \A d \in Where(r.trace, "data") : j < d
     /\ LastSave(r.trace).questionIndex = r.index
     /\ LastSave(r.trace).language = <<r.normalizedLang>>
     /\ LastSave(r.trace).text = text

(***************************************************************************)
(* C9, as amended: on /explain-stream, when the inference call fails       *)
(* before its body starts, the response is exactly metadata with fromCache *)
(* false, one data event with the fallback text and fallback true,         *)
(* complete; there is no error event; and the save of the fallback text    *)
(* for (index, language) is attempted before the data event is sent: the   *)
(* store holds that text if the save succeeds; if the save fails the file  *)
(* is left as it was or is left empty.                                     *)
(***************************************************************************)
C9_PreStreamFailureFallback ==
  [][\A s \in DOMAIN req :
       PostFails(s) =>
         /\ FallbackSequence(s)
         /\ IF LastSave(req'[s].trace).ok
            THEN Holds(store', variant, req'[s], LastSave(req'[s].trace).text)
            ELSE store' \in {store, <<EmptyFile>>}]_vars

\* a stream that ended with the fallback while the store could not be written
C9_Witness ==
  \E s \in DOMAIN req :
    /\ req[s].endpoint = "stream" /\ req[s].pc = "closed"
    /\ \E j \in Where(req[s].trace, "data") : req[s].trace[j].fallback
    /\ Where(req[s].trace, "complete") # {}
    /\ ~LastSave(req[s].trace).ok
    /\ store = <<>>

\* C9 as it was stated: the fallback text is saved before the data event is sent
C9_Original ==
  [][\A s \in DOMAIN req :
       PostFails(s) =>
         /\ FallbackSequence(s)
         /\ Holds(store', variant, req'[s], LastSave(req'[s].trace).text)]_vars

(***************************************************************************)
(* C10, as stated: on /explain-stream, when the body of the inference call *)
(* has started, the response never gets an error event: the step that      *)
(* ends it either is the end of the body (the text of the model is saved,  *)
(* complete) or is the failure of the body, and then the response gets the *)
(* fallback text as a data event with fallback true, and complete. The     *)
(* handler of the error of the body, in both variants, breaks it.          *)
(***************************************************************************)
C10_StreamFailureFallback ==
  [][\A s \in DOMAIN req :
       (/\ req[s].pc = "streaming"
        /\ req[s].endpoint = "stream"
        /\ req'[s].pc = "closed")
       => LET ev == EventsOf(req'[s].trace) IN
            /\ Where(ev, "error") = {}
            /\ ev[Len(ev)] = [k |-> "complete"]]_vars

(***************************************************************************)
(* The failure of the inference call in an /explain request: the step in   *)
(* which the request leaves the wait for axios.post or for the body, and   *)
(* the reply the Fallback Generator gives.                                 *)
(***************************************************************************)
\* the request of slot s, on /explain, stops waiting for the inference endpoint
ExplainSettles(s) ==
  /\ req[s].endpoint = "explain"
  /\ req[s].pc \in {"awaitPost", "streaming"}
  /\ req'[s].pc \notin {"awaitPost", "streaming"}
\* the 200 reply with the text of the Fallback Generator and fallback true
FallbackBody(v, r) ==
  [k |-> "send", status |-> 200,
   body |-> [title |-> Catalog[r.index.n + 1].title,
             language |-> <<r.normalizedLang>>,
             languageDisplay |-> <<getLanguageDisplayName(v, r.normalizedLang)>>,
             response |-> generateFallbackResponse(v, Catalog[r.index.n + 1], r.normalizedLang),
             fromCache |-> FALSE, fallback |-> TRUE]]
\* the 200 reply with the text of the model, which the end of the body gives
ModelBody(r) ==
  /\ r.delivered = Len(r.body[1])
  /\ r.trace[Len(r.trace)].k = "send"
  /\ r.trace[Len(r.trace)].status = 200
  /\ ~r.trace[Len(r.trace)].body.fallback
  /\ r.trace[Len(r.trace)].body.response = r.fullResponse

(***************************************************************************)
(* C11, as stated: on /explain, in either variant, a request that called   *)
(* the inference endpoint ends with exactly one reply; when axios.post     *)
(* fails the reply is HTTP 200 with the text of the Fallback Generator and *)
(* fallback true, and when the body has started the reply is either that   *)
(* one (the body failed) or the 200 reply with the text of the model (the  *)
(* body ended): never an error status, never no reply. The handler of the  *)
(* error of the body in the lenient /explain breaks it.                    *)
(***************************************************************************)
C11_ExplainFailureFallback ==
  [][\A s \in DOMAIN req :
       ExplainSettles(s) =>
         /\ req'[s].pc = "closed"
         /\ Cardinality(Where(req'[s].trace, "send")) = 1
         /\ \/ req'[s].trace[Len(req'[s].trace)] = FallbackBody(variant, req'[s])
            \/ req[s].pc = "streaming" /\ ModelBody(req'[s])]_vars

(***************************************************************************)
(* The records of a body, read from the whole body and not chunk by chunk. *)
(***************************************************************************)
\* the lines of a body that are not blank
RecordLines(body) == SelectSeq(SplitLines(body, 1, <<>>), LAMBDA l : ~TrimsToEmpty(l))
\* the body is a sequence of well-formed newline-delimited records
WellFormedBody(body) ==
  \A j \in DOMAIN RecordLines(body) : JsonParse(RecordLines(body)[j]).ok
\* the fragments of the records of a well-formed body that are not empty, in the
\* order of the records
FragmentsOf(body) ==
  SelectSeq([j \in DOMAIN RecordLines(body) |-> JsonParse(RecordLines(body)[j]).response],
            LAMBDA f : f # <<>>)
\* the texts of the data events of a trace, in the order of emission
DataTexts(tr) ==
  [j \in DOMAIN SelectSeq(tr, LAMBDA e : e.k = "data") |->
     SelectSeq(tr, LAMBDA e : e.k = "data")[j].text]
IsPrefix(p, q) == Len(p) <= Len(q) /\ SubSeq(q, 1, Len(p)) = p

(***************************************************************************)
(* C12: on /explain-stream, when the body of the inference call is a       *)
(* sequence of well-formed newline-delimited records, however it is cut    *)
(* into chunks (in the middle of a record too, and with a last record that *)
(* has no newline after it): while the body arrives the data events are    *)
(* the fragments, not empty, of the first records, in their order, and     *)
(* when the body has ended (complete) they are the fragments, not empty,   *)
(* of all the records, each once, in their order.                          *)
(***************************************************************************)
C12_OneDataEventPerRecord ==
  \A s \in DOMAIN req :
    (/\ req[s].endpoint = "stream"
     /\ req[s].body # Absent
     /\ WellFormedBody(req[s].body[1]))
    => /\ IsPrefix(DataTexts(req[s].trace), FragmentsOf(req[s].body[1]))
       /\ Where(req[s].trace, "complete") # {}
            => DataTexts(req[s].trace) = FragmentsOf(req[s].body[1])

\* a stream that completed on a body of two records, the last one without a
\* newline after it, with one data event for each
C12_Witness ==
  \E s \in DOMAIN req :
    /\ req[s].endpoint = "stream" /\ req[s].pc = "closed"
    /\ Where(req[s].trace, "complete") # {}
    /\ req[s].body = <<(<<"{", "a", ".", "}", "\n", "{", BT, "b", BT, "}">>)>>
    /\ DataTexts(req[s].trace) = <<(<<"a", ".">>), <<BT, "b", BT>> >>

(***************************************************************************)
(* Two requests side by side: slot 1 takes a request of /explain-stream    *)
(* and slot 2 the same request (same index, language and refresh, same     *)
(* catalog) on /explain; both read the store in the same state, and the    *)
(* inference endpoint behaves the same for both: it fails for both, or it  *)
(* sends both the same body in the same chunks, and the body ends or fails *)
(* for both at the same place.                                             *)
(***************************************************************************)
TwinInit ==
  /\ variant \in {"strict", "lenient"}
  /\ store = <<>>
  /\ req = [s \in {1, 2} |-> IdleReq]

TwinRequest ==
  /\ req[1].pc = "idle" /\ req[2].pc = "idle"
  /\ \E rawIndex \in RawIndexes, rawLanguage \in RawLanguages, rawRefresh \in RawRefreshes,
        catalogOk \in BOOLEAN, readOk \in BOOLEAN :
       req' = << ExplainStreamStart(variant, store, rawIndex, rawLanguage, rawRefresh,
                                    catalogOk, readOk),
                 ExplainStart(variant, store, rawIndex, rawLanguage, rawRefresh,
                              catalogOk, readOk) >>
  /\ UNCHANGED <<variant, store>>

TwinPostResolves ==
  /\ req[1].pc = "awaitPost" /\ req[2].pc = "awaitPost"
  /\ \E body \in Bodies : req' = <<BodyStarts(req[1], body), BodyStarts(req[2], body)>>
  /\ UNCHANGED <<variant, store>>

\* catch (apiError) in the two requests, in either order: the second saves on
\* the store the first left
TwinPostRejects ==
  /\ req[1].pc = "awaitPost" /\ req[2].pc = "awaitPost"
  /\ \E first \in {1, 2}, second \in {1, 2} :
       /\ first # second
       /\ \E wFirst \in WriteOutcomes, wSecond \in WriteOutcomes :
            \E f1 \in {Fallback(variant, store, req[first], wFirst)} :
              \E f2 \in {Fallback(variant, f1.store, req[second], wSecond)} :
                /\ req' = [s \in {1, 2} |-> IF s = first THEN f1.req ELSE f2.req]
                /\ store' = f2.store
  /\ UNCHANGED variant

TwinData ==
  /\ req[1].pc = "streaming" /\ req[2].pc = "streaming"
  /\ \E chunk \in NextChunks(req[1]) :
       req' = <<BodyData(req[1], chunk), BodyData(req[2], chunk)>>
  /\ UNCHANGED <<variant, store>>

\* response.data.on("end") in the two requests, in either order: the second
\* saves on the store the first left
TwinEnd ==
  /\ req[1].pc = "streaming" /\ req[2].pc = "streaming"
  /\ req[1].delivered = Len(req[1].body[1])
  /\ \E first \in {1, 2}, second \in {1, 2} :
       /\ first # second
       /\ \E wFirst \in WriteOutcomes, wSecond \in WriteOutcomes :
            \E e1 \in {BodyEnd(variant, store, req[first], wFirst)} :
              \E e2 \in {BodyEnd(variant, e1.store, req[second], wSecond)} :
                /\ req' = [s \in {1, 2} |-> IF s = first THEN e1.req ELSE e2.req]
                /\ store' = e2.store
  /\ UNCHANGED variant

\* response.data.on("error") in both requests, in the strict variant
TwinErrorStrict ==
  /\ req[1].pc = "streaming" /\ req[2].pc = "streaming"
  /\ variant = "strict"
  /\ \E write \in WriteOutcomes :
       \E f \in {Fallback(variant, store, req[2], write)} :
         req' = <<BodyError(req[1]), f.req>> /\ store' = f.store
  /\ UNCHANGED variant

\* response.data.on("error") in both requests, in the lenient variant
TwinErrorLenient ==
  /\ req[1].pc = "streaming" /\ req[2].pc = "streaming"
  /\ variant = "lenient"
  /\ req' = <<BodyError(req[1]), BodyErrorUnseen(req[2])>>
  /\ UNCHANGED <<variant, store>>

TwinRelease ==
  /\ Over(req[1]) /\ Over(req[2])
  /\ req' = [s \in {1, 2} |-> IdleReq]
  /\ UNCHANGED <<variant, store>>

TwinNext ==
  \/ TwinRequest
  \/ TwinPostResolves
  \/ TwinPostRejects
  \/ TwinData
  \/ TwinEnd
  \/ TwinErrorStrict
  \/ TwinErrorLenient
  \/ TwinRelease

TwinSpec == TwinInit /\ [][TwinNext]_vars

\* the texts of a sequence, one after the other
RECURSIVE Concat(_)
Concat(texts) == IF texts = <<>> THEN <<>> ELSE Head(texts) \o Concat(Tail(texts))

(***************************************************************************)
(* C13, as stated: for the same request, the same store state and the same *)
(* inference behaviour, when /explain has replied with a body (status 200) *)
(* the texts of the data events of /explain-stream, one after the other,   *)
(* are the response field of that body. A body that fails after it has     *)
(* started breaks it: the strict /explain replies with the fallback text   *)
(* while /explain-stream has relayed the fragments received so far (and    *)
(* the lenient /explain does not reply).                                   *)
(***************************************************************************)
C13_StreamTextIsExplainResponse ==
  (Over(req[1]) /\ Over(req[2])) =>
    \A j \in Where(req[2].trace, "send") :
      req[2].trace[j].status = 200 =>
        Concat(DataTexts(req[1].trace)) = req[2].trace[j].body.response

(***************************************************************************)
(* The language of a request as the client gave it.                        *)
(***************************************************************************)
\* the language parameter is absent, empty, or not a supported name after
\* lowercasing
BadLanguage(rawLanguage) ==
  Falsy(rawLanguage) \/ ToLowerCase(rawLanguage[1]) \notin
    {"python", "javascript", "java", "cpp", "c"}
\* the request that starts in slot s in this step is rejected: it is over at
\* once, with nothing but an error event (/explain-stream) or a reply of the
\* given status (/explain), no language was accepted for it, and the store is
\* as it was
RejectedWith(s, status) ==
  /\ req'[s].pc = "closed"
  /\ Len(req'[s].trace) = 1
  /\ IF req'[s].endpoint = "stream"
     THEN req'[s].trace[1].k = "error"
     ELSE req'[s].trace[1].k = "send" /\ req'[s].trace[1].status = status
  /\ req'[s].normalizedLang = ""
  /\ store' = store
\* what the error event or the reply of a request rejected for its language says
LanguageErrorText(rawLanguage) ==
  IF Falsy(rawLanguage) THEN <<"Language parameter is required">>
  ELSE <<"Unsupported language: ", rawLanguage[1]>>

(***************************************************************************)
(* C14, as amended: in the strict variant a request whose language         *)
(* parameter is absent, empty or not a supported name after lowercasing is *)
(* rejected: /explain-stream emits a single error event and /explain       *)
(* replies 400, or 500 when the catalog could not be loaded (that check    *)
(* comes first); when the catalog was loaded the error names the language  *)
(* problem; the request is never processed with that value or with a       *)
(* default.                                                                *)
(***************************************************************************)
C14_StrictRejectsLanguage ==
  [][\A s \in DOMAIN req :
       (/\ Starts(s)
        /\ variant = "strict"
        /\ req'[s].endpoint \in {"stream", "explain"}
        /\ BadLanguage(req'[s].rawLanguage))
       => /\ RejectedWith(s, IF req'[s].questions = 0 THEN 500 ELSE 400)
          /\ req'[s].questions > 0 =>
               LET e == req'[s].trace[1] IN
                 IF req'[s].endpoint = "stream"
                 THEN e.error = LanguageErrorText(req'[s].rawLanguage)
                 ELSE e.body = LanguageErrorText(req'[s].rawLanguage)]_vars

\* a strict /explain request for rust that was answered 400
C14_Witness ==
  \E s \in DOMAIN req :
    /\ variant = "strict"
    /\ req[s].endpoint = "explain" /\ req[s].pc = "closed"
    /\ req[s].rawLanguage = <<"rust">>
    /\ req[s].trace = <<[k |-> "send", status |-> 400,
                         body |-> <<"Unsupported language: ", "rust">>]>>

\* C14 as it was stated: /explain replies 400
C14_Original ==
  [][\A s \in DOMAIN req :
       (/\ Starts(s)
        /\ variant = "strict"
        /\ req'[s].endpoint \in {"stream", "explain"}
        /\ BadLanguage(req'[s].rawLanguage))
       => RejectedWith(s, 400)]_vars

(***************************************************************************)
(* C15: in the lenient variant a request whose language parameter is       *)
(* absent, empty or unsupported is processed exactly as the same request   *)
(* with language=python: right after the handler has run up to its cache   *)
(* check (and its reply, on a hit or a rejection for another reason) the   *)
(* request is in the state the python request would be in, so the cache    *)
(* decision and the events are the same; its language is python, in the    *)
(* metadata event too; it is not rejected for its language; and when its   *)
(* generation completes and the save succeeds the stored record has        *)
(* language python.                                                        *)
(***************************************************************************)
C15_LenientDefaultsToPython ==
  [][\A s \in DOMAIN req :
       /\ (/\ Starts(s)
           /\ variant = "lenient"
           /\ req'[s].endpoint \in {"stream", "explain"}
           /\ BadLanguage(req'[s].rawLanguage))
          => /\ \A rawIndex \in RawIndexes, rawRefresh \in RawRefreshes,
                   catalogOk \in BOOLEAN, readOk \in BOOLEAN :
                  LET asGiven == IF req'[s].endpoint = "stream"
                                 THEN ExplainStreamStart(variant, store, rawIndex, req'[s].rawLanguage,
                                                         rawRefresh, catalogOk, readOk)
                                 ELSE ExplainStart(variant, store, rawIndex, req'[s].rawLanguage,
                                                   rawRefresh, catalogOk, readOk)
                      asPython == IF req'[s].endpoint = "stream"
                                  THEN ExplainStreamStart(variant, store, rawIndex, <<"python">>,
                                                          rawRefresh, catalogOk, readOk)
                                  ELSE ExplainStart(variant, store, rawIndex, <<"python">>,
                                                    rawRefresh, catalogOk, readOk)
                  IN req'[s] = asGiven =>
                       req'[s] = [asPython EXCEPT !.rawLanguage = req'[s].rawLanguage]
             /\ req'[s].normalizedLang = "python"
             /\ \A j \in Where(req'[s].trace, "metadata") : req'[s].trace[j].language = "python"
             /\ \A j \in Where(req'[s].trace, "error") :
                  req'[s].trace[j].error[1] \in {"Failed to load questions data",
                                                 "Question not found at index "}
             /\ \A j \in Where(req'[s].trace, "send") : req'[s].trace[j].status # 400
       /\ (/\ variant = "lenient"
           /\ req[s].pc \in {"awaitPost", "streaming"}
           /\ req[s].normalizedLang = "python"
           /\ req'[s].pc = "closed"
           /\ Where(req'[s].trace, "save") # {}
           /\ LastSave(req'[s].trace).ok)
          => HasRecord(store') /\ store'[1].language = "python"]_vars

\* a lenient request for rust that was served, as a python request is, the
\* record stored for python
C15_Witness ==
  \E s \in DOMAIN req :
    /\ variant = "lenient"
    /\ req[s].endpoint = "stream" /\ req[s].pc = "closed"
    /\ req[s].rawLanguage = <<"rust">>
    /\ Len(req[s].trace) = 3
    /\ req[s].trace[1].k = "metadata" /\ req[s].trace[1].fromCache
    /\ req[s].trace[1].language = "python"
    /\ HasRecord(store) /\ store[1].language = "python"
    /\ req[s].trace[2].text = store[1].response

(***************************************************************************)
(* C16: in every reachable state of either variant, after any sequence of  *)
(* requests and cache clears, the stored record, if there is one, has a    *)
(* language that is one of the five supported lowercase names, and so has  *)
(* every metadata event and every /explain reply that carries a language.  *)
(***************************************************************************)
C16_LanguagesAreSupported ==
  /\ HasRecord(store) => store[1].language \in {"python", "javascript", "java", "cpp", "c"}
  /\ \A s \in DOMAIN req :
       /\ \A j \in Where(req[s].trace, "metadata") :
            req[s].trace[j].language \in {"python", "javascript", "java", "cpp", "c"}
       /\ \A j \in Where(req[s].trace, "send") :
            (req[s].endpoint = "explain" /\ req[s].trace[j].status = 200
             /\ req[s].trace[j].body.language # Absent)
            => req[s].trace[j].body.language[1] \in {"python", "javascript", "java", "cpp", "c"}

\* the store holds a record for java, written for a request that gave "Java",
\* and a later /explain request gets it back with language java
C16_Witness ==
  \E s \in DOMAIN req :
    /\ HasRecord(store) /\ store[1].language = "java"
    /\ req[s].endpoint = "explain" /\ req[s].pc = "closed"
    /\ req[s].rawLanguage = <<"Java">>
    /\ \E j \in Where(req[s].trace, "send") :
         /\ req[s].trace[j].status = 200
         /\ req[s].trace[j].body.language = <<"java">>

(***************************************************************************)
(* C17, as amended: a request that passes the checks made before the       *)
(* lookup (the catalog was loaded and, in the strict variant, the language *)
(* was accepted) and whose index has no problem in the catalog (out of     *)
(* range, negative, or not a number) ends in the not-found error:          *)
(* /explain-stream emits a single error event that names the index and     *)
(* /explain replies 404; nothing is generated and the store is left as it  *)
(* was, even when it holds a record whose questionIndex is that index.     *)
(***************************************************************************)
C17_NoProblemIsNotFound ==
  [][\A s \in DOMAIN req :
       (/\ Starts(s)
        /\ req'[s].endpoint \in {"stream", "explain"}
        /\ req'[s].questions > 0
        /\ variant = "strict" => ~BadLanguage(req'[s].rawLanguage)
        /\ \/ req'[s].index.nan
           \/ req'[s].index.n < 0
           \/ req'[s].index.n >= req'[s].questions)
       => /\ req'[s].pc = "closed"
          /\ store' = store
          /\ req'[s].trace =
               IF req'[s].endpoint = "stream"
               THEN <<[k |-> "error", error |-> <<"Question not found at index ", req'[s].index>>]>>
               ELSE <<[k |-> "send", status |-> 404,
                       body |-> <<"Question not found at index ", req'[s].index,
                                  ". Total questions: ", req'[s].questions>>]>>]_vars

\* a request for index -1 that ended in the not-found error while the store
\* holds a record whose questionIndex is -1 and whose language is the request's
C17_Witness ==
  \E s \in DOMAIN req :
    /\ req[s].endpoint = "stream" /\ req[s].pc = "closed"
    /\ ~req[s].forceRefresh
    /\ req[s].trace = <<[k |-> "error",
                         error |-> <<"Question not found at index ", [nan |-> FALSE, n |-> 0 - 1]>>]>>
    /\ HasRecord(store) /\ StrictEq(store[1].questionIndex, req[s].index)
    /\ store[1].language = req[s].normalizedLang

\* C17 as it was stated, for a catalog that was loaded: whatever the language of
\* the request
C17_Original ==
  [][\A s \in DOMAIN req :
       (/\ Starts(s)
        /\ req'[s].endpoint \in {"stream", "explain"}
        /\ req'[s].questions > 0
        /\ \/ req'[s].index.nan
           \/ req'[s].index.n < 0
           \/ req'[s].index.n >= req'[s].questions)
       => /\ req'[s].pc = "closed"
          /\ Len(req'[s].trace) = 1
          /\ IF req'[s].endpoint = "stream"
             THEN /\ req'[s].trace[1].k = "error"
                  /\ req'[s].trace[1].error[1] = "Question not found at index "
             ELSE /\ req'[s].trace[1].k = "send"
                  /\ req'[s].trace[1].status = 404]_vars

(***************************************************************************)
(* C18: a request rejected before generation (the catalog is empty or      *)
(* unreadable, the language is not accepted in the strict variant, or the  *)
(* index names no problem) is over at once with nothing but its error (one *)
(* error event, or one reply with status 500, 400 or 404): it emits no     *)
(* metadata and no data event, makes no call to the inference endpoint and *)
(* no save, and leaves the stored record as it was.                        *)
(***************************************************************************)
C18_RejectionHasNoEffect ==
  [][\A s \in DOMAIN req :
       (/\ Starts(s)
        /\ req'[s].endpoint \in {"stream", "explain"}
        /\ ~Validated(req'[s]))
       => /\ req'[s].pc = "closed"
          /\ Where(req'[s].trace, "metadata") = {}
          /\ Where(req'[s].trace, "data") = {}
          /\ Where(req'[s].trace, "post") = {}
          /\ Where(req'[s].trace, "save") = {}
          /\ Len(req'[s].trace) = 1
          /\ \/ req'[s].endpoint = "stream" /\ req'[s].trace[1].k = "error"
             \/ /\ req'[s].endpoint = "explain" /\ req'[s].trace[1].k = "send"
                /\ req'[s].trace[1].status \in {500, 400, 404}
          /\ store' = store]_vars

\* a request of /explain-stream rejected for its language while the store holds
\* a text
C18_Witness ==
  \E s \in DOMAIN req :
    /\ req[s].endpoint = "stream" /\ req[s].pc = "closed"
    /\ req[s].trace = <<[k |-> "error", error |-> <<"Unsupported language: ", "rust">>]>>
    /\ HasRecord(store) /\ store[1].response # <<>>

(***************************************************************************)
(* C19: a failure of the store never turns a request into an error. When   *)
(* the save at the end of a generation fails (text of the model or         *)
(* fallback), the request still ends with complete (/explain-stream) or    *)
(* with a 200 reply (/explain) and the client has the text that was to be  *)
(* saved, there is no error event and no error status, and the stored      *)
(* record is left as it was: a load after the request returns what a load  *)
(* before it returned. When the load fails (the store holds a record       *)
(* and the request got none), a request that passed validation proceeds as *)
(* a cache miss: it calls the inference endpoint.                          *)
(***************************************************************************)
C19_StoreFailureIsNotFatal ==
  [][\A s \in DOMAIN req :
       /\ (/\ req[s].pc \in {"awaitPost", "streaming"}
           /\ Over(req'[s])
           /\ Where(req'[s].trace, "save") # {}
           /\ ~LastSave(req'[s].trace).ok)
          => /\ req'[s].pc = "closed"
             /\ loadStoredResponse(store', TRUE) = loadStoredResponse(store, TRUE)
             /\ Where(req'[s].trace, "error") = {}
             /\ LET last == req'[s].trace[Len(req'[s].trace)] IN
                  IF req'[s].endpoint = "stream"
                  THEN /\ last = [k |-> "complete"]
                       /\ Concat(DataTexts(req'[s].trace)) = LastSave(req'[s].trace).text
                  ELSE /\ last.k = "send" /\ last.status = 200
                       /\ last.body.response = LastSave(req'[s].trace).text
       /\ (/\ Starts(s)
           /\ req'[s].endpoint \in {"stream", "explain"}
           /\ Validated(req'[s])
           /\ HasRecord(store)
           /\ req'[s].storedResponse = <<>>)
          => /\ req'[s].pc = "awaitPost"
             /\ ~ServedFromCache(req'[s])
             /\ req'[s].trace[Len(req'[s].trace)] = [k |-> "post", language |-> req'[s].normalizedLang]]_vars

\* a stream that completed with the text of the model though its save failed,
\* the store still holding the record of another problem
C19_Witness ==
  \E s \in DOMAIN req :
    /\ req[s].endpoint = "stream" /\ req[s].pc = "closed"
    /\ Where(req[s].trace, "complete") # {}
    /\ Where(req[s].trace, "save") # {} /\ ~LastSave(req[s].trace).ok
    /\ DataTexts(req[s].trace) # <<>>
    /\ \A j \in Where(req[s].trace, "data") : ~req[s].trace[j].fallback
    /\ HasRecord(store) /\ ~StrictEq(store[1].questionIndex, req[s].index)

(***************************************************************************)
(* C20: in a generation on /explain-stream (text of the model or fallback) *)
(* the save is attempted before the complete event is emitted; and in any  *)
(* state where complete has been emitted for a generation of (i, L), the   *)
(* save succeeded and no other request has saved since, the store holds a  *)
(* record for (i, L), so that the cache check of the same request without  *)
(* refresh, once it has loaded that record, is a hit.                      *)
(***************************************************************************)
C20_SavedBeforeComplete ==
  \A s \in DOMAIN req :
    (/\ req[s].endpoint = "stream"
     /\ Where(req[s].trace, "complete") # {}
     /\ Where(req[s].trace, "post") # {})
    => /\ Where(req[s].trace, "save") # {}
       /\ \A j \in Where(req[s].trace, "save") : \A c \in Where(req[s].trace, "complete") : j < c
       /\ (/\ LastSave(req[s].trace).ok
           /\ \A t \in DOMAIN req \ {s} : Where(req[t].trace, "save") = {})
          => /\ HasRecord(store)
             /\ store[1].questionIndex = req[s].index
             /\ store[1].language = req[s].normalizedLang
             /\ store[1].response = cleanResponseText(variant, LastSave(req[s].trace).text)
             /\ CacheHit(FALSE, loadStoredResponse(store, TRUE), req[s].index, req[s].normalizedLang)

\* a stream for java that completed with the fallback text, saved
C20_Witness ==
  \E s \in DOMAIN req :
    /\ req[s].endpoint = "stream" /\ req[s].pc = "closed"
    /\ Where(req[s].trace, "complete") # {}
    /\ \E j \in Where(req[s].trace, "data") : req[s].trace[j].fallback
    /\ LastSave(req[s].trace).ok
    /\ req[s].normalizedLang = "java"
    /\ HasRecord(store) /\ store[1].language = "java" /\ store[1].response # <<>>

(***************************************************************************)
(* The key of a save: the index and the language under which saveResponse  *)
(* writes the record.                                                      *)
(***************************************************************************)
\* the language under which a save writes: saveResponse takes the default
\* language when it is given none
SavedLanguage(sv) == IF sv.language = Absent THEN DEFAULT_LANGUAGE ELSE sv.language[1]
\* the request of slot s ends a generation in this step with a save that
\* succeeded
SavesInStep(s) ==
  /\ req[s].pc \in {"awaitPost", "streaming"}
  /\ Over(req'[s])
  /\ Where(req'[s].trace, "save") # {}
  /\ LastSave(req'[s].trace).ok
\* a request without refresh for problem i in language L that loads the record
\* of store st is served from it
WouldHit(st, i, L) == CacheHit(FALSE, loadStoredResponse(st, TRUE), Num(i), L)

(***************************************************************************)
(* C21, as amended: the store holds at most one record and each successful *)
(* save overwrites it. A step changes the store only by a save that        *)
(* succeeds, after which the store holds the one record of that save and   *)
(* no request for another key (index or language) can be served from it,   *)
(* by /clear-cache, or by a write that fails and leaves the file empty,    *)
(* with no record; a request without refresh that passes validation        *)
(* while the store holds the record of another key is a cache miss and     *)
(* calls the inference endpoint; and a request served from the store has   *)
(* the key and the text of the record the store holds, which is the one    *)
(* most recently saved.                                                    *)
(***************************************************************************)
C21_SingleRecordOverwritten ==
  [][/\ Len(store') <= 1
     /\ store' # store =>
          \E s \in DOMAIN req :
            \/ SavesInStep(s)
            \/ Starts(s) /\ req'[s].endpoint = "clear" /\ store' = <<emptyResponse>>
            \/ /\ store' = <<EmptyFile>>
               /\ \/ Starts(s) /\ req'[s].endpoint = "clear"
                  \/ /\ Over(req'[s]) /\ ~Over(req[s])
                     /\ Where(req'[s].trace, "save") # {}
                     /\ ~LastSave(req'[s].trace).ok
     /\ \A s \in DOMAIN req :
          /\ SavesInStep(s) =>
               LET sv == LastSave(req'[s].trace) IN
               /\ Len(store') = 1
               /\ store'[1].questionIndex = sv.questionIndex
               /\ store'[1].language = SavedLanguage(sv)
               /\ \A i \in 0..(NumQuestions - 1), L \in Supported :
                    WouldHit(store', i, L) <=> (Num(i) = sv.questionIndex /\ L = SavedLanguage(sv))
          /\ (/\ Starts(s)
              /\ req'[s].endpoint \in {"stream", "explain"}
              /\ Validated(req'[s])
              /\ HasRecord(store)
              /\ \/ ~StrictEq(store[1].questionIndex, req'[s].index)
                 \/ store[1].language # req'[s].normalizedLang)
             => /\ req'[s].pc = "awaitPost"
                /\ ~ServedFromCache(req'[s])
                /\ req'[s].trace[Len(req'[s].trace)] = [k |-> "post", language |-> req'[s].normalizedLang]
          /\ (Starts(s) /\ ServedFromCache(req'[s]))
             => /\ Len(store) = 1
                /\ StrictEq(store[1].questionIndex, req'[s].index)
                /\ store[1].language = req'[s].normalizedLang
                /\ IF req'[s].endpoint = "stream"
                   THEN \E j \in Where(req'[s].trace, "data") : req'[s].trace[j].text = store[1].response
                   ELSE req'[s].trace[1].body.response = store[1].response]_vars

\* a request for problem 0, without refresh, that loaded the record saved for
\* problem 1 in the same language and waits for the inference endpoint
C21_Witness ==
  \E s \in DOMAIN req :
    /\ req[s].pc = "awaitPost" /\ req[s].endpoint = "stream"
    /\ ~req[s].forceRefresh
    /\ req[s].index = Num(0)
    /\ req[s].storedResponse # <<>> /\ req[s].storedResponse = store
    /\ store[1].questionIndex = Num(1)
    /\ store[1].language = req[s].normalizedLang
    /\ store[1].response # <<>>

\* C21 as it was stated, for /explain-stream: once a generation for a key has
\* completed, no request for another key can be served from the store
C21_Original ==
  [][\A s \in DOMAIN req :
       Completes(s, "stream") =>
         \A i \in 0..(NumQuestions - 1), L \in Supported :
           (Num(i) # req'[s].index \/ L # req'[s].normalizedLang)
             => ~WouldHit(store', i, L)]_vars

(***************************************************************************)
(* C22: a save that succeeds followed by a load that reads the file gives  *)
(* back a record with the index and the language of the save and with the  *)
(* sanitized text. It is checked on every index of the catalog and every   *)
(* supported language, on each text a request accumulates (the texts do    *)
(* not depend on the request, so those of one request are taken), from the *)
(* store as it is; and on each save the handlers make. The stored text     *)
(* changes only by such a save, by /clear-cache, which writes the empty    *)
(* text, or by a failed write that leaves no record, so it always is an    *)
(* output of the sanitizer or the empty text.                              *)
(***************************************************************************)
C22_SaveLoadRoundTrip ==
  [][/\ \A s \in DOMAIN req :
          /\ (/\ req'[s].fullResponse # req[s].fullResponse
              /\ req[s].endpoint = "stream"
              /\ req[s].index = Num(0) /\ req[s].normalizedLang = DEFAULT_LANGUAGE) =>
               With(cleanResponseText(variant, req'[s].fullResponse), LAMBDA cleaned :
                 \A i \in 0..(NumQuestions - 1), L \in Supported :
                   With(saveResponse(variant, store, Num(i), Catalog[i + 1].title,
                                     req'[s].fullResponse, Given(L), "written"), LAMBDA sv :
                   With(loadStoredResponse(sv.store, TRUE), LAMBDA loaded :
                     /\ sv.ok
                     /\ Len(loaded) = 1
                     /\ loaded[1].questionIndex = Num(i)
                     /\ loaded[1].title = Catalog[i + 1].title
                     /\ loaded[1].language = L
                     /\ loaded[1].response = cleaned)))
          /\ SavesInStep(s) =>
               With(LastSave(req'[s].trace), LAMBDA sv :
               With(loadStoredResponse(store', TRUE), LAMBDA loaded :
                 /\ Len(loaded) = 1
                 /\ loaded[1].questionIndex = sv.questionIndex
                 /\ loaded[1].language = SavedLanguage(sv)
                 /\ loaded[1].response = cleanResponseText(variant, sv.text)))
     /\ (store' # store /\ ~\E s \in DOMAIN req : SavesInStep(s))
          => (HasRecord(store') => store'[1].response = <<>>)]_vars

\* the store holds the record of a save of the text "a." followed by inline
\* code, for problem 1 in java: the sanitizer took the inline code away
C22_Witness ==
  \E s \in DOMAIN req :
    /\ req[s].pc = "closed"
    /\ Where(req[s].trace, "save") # {}
    /\ LastSave(req[s].trace).ok
    /\ LastSave(req[s].trace).text = <<"a", ".", BT, "b", BT>>
    /\ LastSave(req[s].trace).questionIndex = Num(1)
    /\ LastSave(req[s].trace).language = <<"java">>
    /\ loadStoredResponse(store, TRUE) =
         <<[store[1] EXCEPT !.questionIndex = Num(1), !.language = "java",
                            !.response = <<"a", ".">>]>>

(***************************************************************************)
(* C23: DELETE /clear-cache, which the lenient variant has, ends at once   *)
(* with one reply, in one of three ways: when a store file exists and the  *)
(* write succeeds the file holds the sentinel record (questionIndex -1,    *)
(* empty title and response, language python) and the reply is 200; when   *)
(* no store file exists the reply is 404 and no file is created; when the  *)
(* write fails the reply is 500 (and the file is as it was or is empty).   *)
(***************************************************************************)
C23_ClearCacheOutcomes ==
  [][\A s \in DOMAIN req :
       (Starts(s) /\ req'[s].endpoint = "clear")
       => /\ variant = "lenient"
          /\ req'[s].pc = "closed"
          /\ Len(req'[s].trace) = 1
          /\ req'[s].trace[1].k = "send"
          /\ IF store = <<>>
             THEN /\ req'[s].trace[1].status = 404
                  /\ store' = <<>>
             ELSE \/ /\ req'[s].trace[1].status = 200
                     /\ store' = <<[questionIndex |-> [nan |-> FALSE, n |-> 0 - 1],
                                    title |-> "", language |-> "python",
                                    languageDisplay |-> "Python", response |-> <<>>]>>
                  \/ /\ req'[s].trace[1].status = 500
                     /\ store' \in {store, <<EmptyFile>>}]_vars

\* /clear-cache answered 200 and the store file, which held a text, holds the
\* sentinel record
C23_Witness ==
  \E s \in DOMAIN req :
    /\ req[s].endpoint = "clear" /\ req[s].pc = "closed"
    /\ req[s].trace = <<[k |-> "send", status |-> 200,
                         body |-> <<"Response cache cleared successfully">>]>>
    /\ HasRecord(store)
    /\ store[1].questionIndex.n = 0 - 1 /\ store[1].response = <<>>

(***************************************************************************)
(* The server with clients of /explain-stream that may go away: the client *)
(* closes its connection while the handler waits for the inference         *)
(* endpoint or relays its body. The handler listens to no "close" event of *)
(* the request or of the response and passes no signal to axios.post, and  *)
(* res.write on a closed connection does not throw: the handlers of the    *)
(* body run as they do for a client that is there.                         *)
(***************************************************************************)
ClientDisconnects(s) ==
  /\ req[s].endpoint = "stream"
  /\ req[s].pc \in {"awaitPost", "streaming"}
  /\ req[s].connected
  /\ req' = [req EXCEPT ![s].connected = FALSE]
  /\ UNCHANGED <<variant, store>>

CancelNext ==
  \/ \E s \in DOMAIN req : ExplainStreamRequest(s)
  \/ \E s \in DOMAIN req : ExplainRequest(s)
  \/ \E s \in DOMAIN req : PostResolves(s)
  \/ \E s \in DOMAIN req : PostRejects(s)
  \/ \E s \in DOMAIN req : StreamData(s)
  \/ \E s \in DOMAIN req : StreamEnd(s)
  \/ \E s \in DOMAIN req : StreamErrorStream(s)
  \/ \E s \in DOMAIN req : StreamErrorExplainStrict(s)
  \/ \E s \in DOMAIN req : StreamErrorExplainLenient(s)
  \/ \E s \in DOMAIN req : ClearCache(s)
  \/ \E s \in DOMAIN req : Release(s)
  \/ \E s \in DOMAIN req : ClientDisconnects(s)

CancelSpec == Init /\ [][CancelNext]_vars

(***************************************************************************)
(* C24, as stated: once the client of an /explain-stream request has       *)
(* disconnected while the body of the inference call is relayed, the       *)
(* request writes no further event and reads no more of the body: no step  *)
(* of the request adds an event to its response, takes a chunk, or saves.  *)
(* The handlers, which do not look at the connection, break it.            *)
(***************************************************************************)
C24_DisconnectStopsRelay ==
  [][\A s \in DOMAIN req :
       (/\ req[s].endpoint = "stream"
        /\ req[s].pc = "streaming"
        /\ ~req[s].connected
        /\ req'[s].pc # "idle")
       => /\ EventsOf(req'[s].trace) = EventsOf(req[s].trace)
          /\ req'[s].delivered = req[s].delivered
          /\ Where(req'[s].trace, "save") = Where(req[s].trace, "save")]_vars

(***************************************************************************)
(* Two generations that overlap: slot 1 takes requests of /explain-stream  *)
(* for problem 0 in python and slot 2 for problem 1 in java, both with     *)
(* refresh=true so that both generate. A request starts only while the     *)
(* other slot is free or its request is in progress, so two requests that  *)
(* are both over were in progress at the same time. The handlers of the    *)
(* two requests run one at a time, as the callbacks of one Node.js thread  *)
(* do, in any order. The inference endpoint fails, or sends slot 1 the     *)
(* text "a." and slot 2 the text "b.".                                     *)
(***************************************************************************)
RaceSlots == {1, 2}
OtherSlot(s) == 3 - s
RaceIndex(s) == IF s = 1 THEN Given("0") ELSE Given("1")
RaceLanguage(s) == IF s = 1 THEN Given("python") ELSE Given("java")
RaceBody(s) == <<OpenRecord, IF s = 1 THEN "a" ELSE "b", ".", CloseRecord, "\n">>

RaceInit ==
  /\ variant \in {"strict", "lenient"}
  /\ store = <<>>
  /\ req = [s \in RaceSlots |-> IdleReq]

RaceRequest(s) ==
  /\ req[s].pc = "idle"
  /\ ~Over(req[OtherSlot(s)])
  /\ req' = [req EXCEPT ![s] = ExplainStreamStart(variant, store, RaceIndex(s), RaceLanguage(s),
                                                  Given("true"), TRUE, TRUE)]
  /\ UNCHANGED <<variant, store>>

RacePostResolves(s) ==
  /\ req[s].pc = "awaitPost"
  /\ req' = [req EXCEPT ![s] = BodyStarts(req[s], RaceBody(s))]
  /\ UNCHANGED <<variant, store>>

RaceRelease(s) ==
  /\ Over(req[s])
  /\ Over(req[OtherSlot(s)]) \/ req[OtherSlot(s)].pc = "idle"
  /\ req' = [req EXCEPT ![s] = IdleReq]
  /\ UNCHANGED <<variant, store>>

RaceNext ==
  \/ \E s \in RaceSlots : RaceRequest(s)
  \/ \E s \in RaceSlots : RacePostResolves(s)
  \/ \E s \in RaceSlots : PostRejects(s)
  \/ \E s \in RaceSlots : StreamData(s)
  \/ \E s \in RaceSlots : StreamEnd(s)
  \/ \E s \in RaceSlots : StreamErrorStream(s)
  \/ \E s \in RaceSlots : RaceRelease(s)

RaceSpec == RaceInit /\ [][RaceNext]_vars

\* the record that the save sv of the request r writes, every field of it from
\* that save
RecordOfSave(v, r, sv) ==
  [questionIndex |-> sv.questionIndex, title |-> Catalog[sv.questionIndex.n + 1].title,
   language |-> sv.language[1], response |-> cleanResponseText(v, sv.text)]
\* the record rec has the fields of wanted (the lenient variant adds
\* languageDisplay)
SameRecord(rec, wanted) ==
  /\ rec.questionIndex = wanted.questionIndex
  /\ rec.title = wanted.title
  /\ rec.language = wanted.language
  /\ rec.response = wanted.response
\* the request of slot s ends a generation in this step, with a save, while the
\* request of the other slot has ended its own with a save
SavesLast(s) ==
  /\ req[s].pc \in {"awaitPost", "streaming"}
  /\ Over(req'[s])
  /\ Where(req'[s].trace, "save") # {}
  /\ Over(req[OtherSlot(s)])
  /\ Where(req[OtherSlot(s)].trace, "save") # {}
\* what a slot's requests may save: the text of its body or its fallback text
RaceTexts(v, s) ==
  { <<IF s = 1 THEN "a" ELSE "b", ".">>,
    generateFallbackResponse(v, Catalog[s], RaceLanguage(s)[1]) }
\* the store is empty or holds a record all of whose fields are those of one
\* save of one slot
StoreFromOneSave ==
  store = <<>> \/ store = <<EmptyFile>> \/
    /\ Len(store) = 1
    /\ \E s \in RaceSlots :
         /\ store[1].questionIndex = Num(s - 1)
         /\ store[1].title = Catalog[s].title
         /\ store[1].language = RaceLanguage(s)[1]
         /\ \E text \in RaceTexts(variant, s) :
              store[1].response = cleanResponseText(variant, text)

(***************************************************************************)
(* C25, as amended: when two generating requests for different keys        *)
(* overlap, after both have finished the store holds exactly the record    *)
(* written by the request whose save succeeded last, or no record when a   *)
(* later write failed and left the file empty: the request that saves last *)
(* leaves its own record when its write succeeds, and when its write fails *)
(* leaves the store as it was or the file empty. In every state the stored *)
(* index, title, language and text all come from one single save; a step   *)
(* changes the store only by the save of the one request that takes it.    *)
(***************************************************************************)
C25_LastWriterWins ==
  [][/\ store' # store => StoreFromOneSave'
     /\ \A s \in RaceSlots :
          /\ SavesLast(s) =>
               IF LastSave(req'[s].trace).ok
               THEN /\ Len(store') = 1
                    /\ SameRecord(store'[1],
                                  RecordOfSave(variant, req'[s], LastSave(req'[s].trace)))
               ELSE store' \in {store, <<EmptyFile>>}
          /\ (store' # store /\ req'[s] # req[s]) =>
               /\ req'[OtherSlot(s)] = req[OtherSlot(s)]
               /\ Over(req'[s]) /\ ~Over(req[s])
               /\ Where(req'[s].trace, "save") # {}
               /\ IF LastSave(req'[s].trace).ok
                  THEN SameRecord(store'[1],
                                  RecordOfSave(variant, req'[s], LastSave(req'[s].trace)))
                  ELSE store' = <<EmptyFile>>]_vars

\* both requests were in progress together and both saved: the store holds the
\* record of slot 2, problem 1 in java with the text "b.", and not that of
\* slot 1, whose save succeeded too
C25_Witness ==
  /\ req[1].pc = "closed" /\ req[2].pc = "closed"
  /\ Where(req[1].trace, "save") # {} /\ LastSave(req[1].trace).ok
  /\ Where(req[2].trace, "save") # {} /\ LastSave(req[2].trace).ok
  /\ LastSave(req[1].trace).text = <<"a", ".">>
  /\ LastSave(req[2].trace).text = <<"b", ".">>
  /\ Len(store) = 1
  /\ store[1].questionIndex = Num(1) /\ store[1].language = "java"
  /\ store[1].response = <<"b", ".">>

\* C25 as it was stated: the request that saves last leaves its own record
C25_Original ==
  [][\A s \in RaceSlots :
       SavesLast(s) =>
         /\ HasRecord(store')
         /\ SameRecord(store'[1],
                       RecordOfSave(variant, req'[s], LastSave(req'[s].trace)))]_vars

(***************************************************************************)
(* C26, as stated: every /explain-stream response that ends with complete  *)
(* after a generation (its metadata event says fromCache false) has at     *)
(* least one data event, after the metadata event and before the complete  *)
(* event, also when the body of the inference call brought no fragment     *)
(* that is not empty. A body without such a fragment breaks it: the "end"  *)
(* handler saves the empty text and writes complete.                       *)
(***************************************************************************)
C26_DataBeforeComplete ==
  \A s \in DOMAIN req :
    (/\ req[s].endpoint = "stream"
     /\ \E m \in Where(req[s].trace, "metadata") : ~req[s].trace[m].fromCache
     /\ Where(req[s].trace, "complete") # {})
    => \E d \in Where(req[s].trace, "data") :
         /\ \A m \in Where(req[s].trace, "metadata") : m < d
         /\ \A c \in Where(req[s].trace, "complete") : d < c

(***************************************************************************)
(* The sanitizer on every short text. cleanResponseText is a pure          *)
(* function of the text handed to saveResponse, and on /explain-stream     *)
(* that text is whatever the inference endpoint sent. The requests of      *)
(* CleanSpec are generations of question 0 in python that have received    *)
(* the whole of a body of one record whose response is a text of at most   *)
(* MaxTextLen characters of CleanAlphabet; what is left to happen is the   *)
(* "end" of the body, which sanitizes the text and saves it.               *)
(***************************************************************************)
MaxTextLen == 6
CleanAlphabet == {BT, "a", "=", ";", "\n"}
InputTexts == UNION {[1..n -> CleanAlphabet] : n \in 0..MaxTextLen}

\* the line of the body that carries the text: JSON.stringify({response: text})
\* and the newline after it
RecordOf(text) ==
  <<OpenRecord>> \o [j \in 1..Len(text) |-> IF text[j] = "\n" THEN EscapedNewline ELSE text[j]]
                 \o <<CloseRecord, "\n">>

\* the request that has received all of body in one chunk
Received(v, body) ==
  BodyData(BodyStarts(ExplainStreamStart(v, <<>>, Given("0"), Given("python"), Absent,
                                         TRUE, TRUE),
                      body),
           body)

CleanInit ==
  /\ variant \in {"strict", "lenient"}
  /\ store = <<>>
  /\ \E text \in InputTexts : req = [s \in {1} |-> Received(variant, RecordOf(text))]

CleanNext == \E s \in DOMAIN req : StreamEnd(s)

CleanSpec == CleanInit /\ [][CleanNext]_vars

\* the text has three backticks in a row
HasFence(text) ==
  \E j \in 1..(Len(text) - 2) : text[j] = BT /\ text[j + 1] = BT /\ text[j + 2] = BT

\* C27: whatever text a generation has accumulated, the text that
\* cleanResponseText returns for it, which is the text of the record saved at
\* the end of the stream, has no three backticks in a row; no fence, closed or
\* left open, is in it.
C27_NoFenceSurvives ==
  \A s \in DOMAIN req :
    (req[s].pc = "closed" /\ LastSave(req[s].trace).ok)
    => /\ Len(store) = 1
       /\ ~HasFence(store[1].response)

\* a generation whose text opens a fence and never closes it was saved, and
\* one backtick is left of the fence
C27_Witness ==
  /\ req[1].pc = "closed"
  /\ req[1].fullResponse = <<BT, BT, BT, "a", ";">>
  /\ HasFence(req[1].fullResponse)
  /\ LastSave(req[1].trace).ok
  /\ store[1].response = <<BT, "a", ";">>

\* C28: sanitizing a sanitized text changes nothing: the text of the record a
\* generation saved, which is cleanResponseText of its accumulated text, is
\* its own cleanResponseText, in both variants.
C28_SanitizerIdempotent ==
  \A s \in DOMAIN req :
    (req[s].pc = "closed" /\ LastSave(req[s].trace).ok)
    => cleanResponseText(variant, store[1].response) = store[1].response

(***************************************************************************)
(* The fallback text. In TwinSpec a failure of axios.post makes the        *)
(* handler of /explain-stream and the handler of /explain each call        *)
(* generateFallbackResponse for the same problem and the same language.    *)
(***************************************************************************)
\* the fallback texts request r has sent: the text of a data event with
\* fallback true, the response of a reply with fallback true
FallbackTexts(r) ==
  {r.trace[j].text : j \in {d \in Where(r.trace, "data") : r.trace[d].fallback}}
  \cup {r.trace[j].body.response :
          j \in {d \in Where(r.trace, "send") :
                   r.trace[d].status = 200 /\ r.trace[d].body.fallback}}
\* the text has the word among its parts
Names(text, word) == \E j \in 1..Len(text) : text[j] = word
\* axios.post failed for request r and its handler is over
FellBackBeforeBody(r) ==
  r.pc = "closed" /\ Where(r.trace, "post") # {} /\ r.body = Absent

\* C29: generateFallbackResponse returns, for a problem of the catalog and a
\* supported language, one text that names the problem's title, its
\* difficulty and the language's display name: the two handlers that call it
\* for the same problem and language send the same text, the text saved is
\* that text, and a handler whose axios.post failed always ends with that
\* text and never with an error.
C29_FallbackDeterministicTotal ==
  /\ \A s \in DOMAIN req :
       /\ \A text \in FallbackTexts(req[s]) :
            /\ req[s].normalizedLang \in Supported
            /\ Names(text, QuestionOf(req[s]).title)
            /\ Names(text, QuestionOf(req[s]).difficulty)
            /\ Names(text, getLanguageDisplayName(variant, req[s].normalizedLang))
            /\ getLanguageDisplayName(variant, req[s].normalizedLang)
                 \in {"Python", "JavaScript", "Java", "C++", "C"}
            /\ LastSave(req[s].trace).text = text
       /\ FellBackBeforeBody(req[s])
          => /\ Cardinality(FallbackTexts(req[s])) = 1
             /\ Where(req[s].trace, "error") = {}
             /\ \A j \in Where(req[s].trace, "send") : req[s].trace[j].status = 200
  /\ \A s \in DOMAIN req, t \in DOMAIN req :
       (/\ req[s].index = req[t].index
        /\ req[s].normalizedLang = req[t].normalizedLang)
       => \A a \in FallbackTexts(req[s]), b \in FallbackTexts(req[t]) : a = b

\* axios.post failed for "Valid Palindrome" in java: the stream and the reply
\* carry the same text, which names the title, "Medium" and "Java"
C29_Witness ==
  /\ DOMAIN req = {1, 2}
  /\ FellBackBeforeBody(req[1]) /\ FellBackBeforeBody(req[2])
  /\ req[1].index = Num(1) /\ req[1].normalizedLang = "java"
  /\ \E text \in FallbackTexts(req[1]) :
       /\ text \in FallbackTexts(req[2])
       /\ Names(text, "Valid Palindrome") /\ Names(text, "Medium") /\ Names(text, "Java")

\* C30: on /explain-stream, once axios.post has resolved, in every state of
\* the generation the texts of the data events written so far, one after the
\* other in the order they were written, are the accumulator fullResponse;
\* and the text handed to saveResponse at the end of the body is the texts of
\* the data events written before the save, one after the other, no data
\* event being written after it.
C30_DataEventsAreAccumulator ==
  \A s \in DOMAIN req :
    (req[s].endpoint = "stream" /\ req[s].body # Absent)
    => /\ Concat(DataTexts(req[s].trace)) = req[s].fullResponse
       /\ \A j \in Where(req[s].trace, "save") :
            /\ req[s].trace[j].text = Concat(DataTexts(SubSeq(req[s].trace, 1, j - 1)))
            /\ req[s].trace[j].text = req[s].fullResponse
            /\ \A d \in Where(req[s].trace, "data") : d < j

\* a generation whose body held a line that is no JSON text: the record
\* before that line was read twice, relayed twice and accumulated twice, and
\* the text that was saved is the two fragments
C30_Witness ==
  \E s \in DOMAIN req :
    /\ req[s].endpoint = "stream" /\ req[s].pc = "closed"
    /\ Where(req[s].trace, "complete") # {}
    /\ DataTexts(req[s].trace) = << <<"a">>, <<"a">> >>
    /\ req[s].fullResponse = <<"a", "a">>
    /\ LastSave(req[s].trace).text = <<"a", "a">>

(***************************************************************************)
(* Progress. The handlers of /explain-stream run to their end once they    *)
(* are called; what a request waits for is the inference endpoint. Under   *)
(* LiveSpec axios.post settles (it resolves, or it rejects, at the latest  *)
(* when its timeout passes) and the body of a resolved call goes on: its   *)
(* chunks arrive and then it ends, or it raises an error. LiveSpec follows *)
(* one request of /explain-stream from its arrival, on a store that has no *)
(* file or the record of an earlier generation.                            *)
(***************************************************************************)
\* the store when the request arrives: no file, or the record of an earlier
\* generation
LiveStores(v) ==
  {<<>>, saveResponse(v, <<>>, Num(0), Catalog[1].title, <<"a", ".">>, Given("python"), "written").store}

LiveInit ==
  /\ variant \in {"strict", "lenient"}
  /\ store \in LiveStores(variant)
  /\ req = [s \in {1} |-> IdleReq]

LiveNext ==
  \/ \E s \in DOMAIN req : ExplainStreamRequest(s)
  \/ \E s \in DOMAIN req : PostResolves(s)
  \/ \E s \in DOMAIN req : PostRejects(s)
  \/ \E s \in DOMAIN req : StreamData(s)
  \/ \E s \in DOMAIN req : StreamEnd(s)
  \/ \E s \in DOMAIN req : StreamErrorStream(s)

LiveSpec ==
  /\ LiveInit
  /\ [][LiveNext]_vars
  /\ \A s \in {1} :
       /\ WF_vars(PostResolves(s) \/ PostRejects(s))
       /\ WF_vars(StreamData(s) \/ StreamEnd(s) \/ StreamErrorStream(s))

\* the response of request r carries a terminal event as its last event and
\* is ended
Terminated(r) ==
  /\ r.pc = "closed"
  /\ r.trace # <<>>
  /\ r.trace[Len(r.trace)].k \in {"complete", "error"}

\* C31: a request of /explain-stream that waits for the inference endpoint,
\* for axios.post to settle or for the body to go on, is followed by a state
\* in which its response carries a terminal event and is ended, provided the
\* call fails or its body ends or raises an error (requests that do not
\* reach the inference endpoint are ended by the step that starts them).
C31_StreamTerminates ==
  \A s \in {1} :
    (req[s].endpoint = "stream" /\ req[s].pc \in {"awaitPost", "streaming"})
    ~> (req[s].endpoint = "stream" /\ Terminated(req[s]))

\* a stream whose body raised an error after a fragment was relayed: the
\* error event is its last event and the response is ended
C31_Witness ==
  /\ req[1].endpoint = "stream"
  /\ Terminated(req[1])
  /\ req[1].body # Absent
  /\ req[1].delivered < Len(req[1].body[1])
  /\ Where(req[1].trace, "data") # {}
  /\ req[1].trace[Len(req[1].trace)].k = "error"

\* C32: a line of the body that JSON.parse rejects touches nothing but
\* itself. As stated: for every body, well formed or not and however it is
\* cut into chunks, the data events of a stream are at every moment the first
\* fragments of the body's well-formed records, each once and in their order,
\* the accumulator is those fragments one after the other, and a body that
\* was received to its end has had all of them relayed and accumulated.
C32_MalformedLineIsolated ==
  \A s \in DOMAIN req :
    req[s].body # Absent
    => /\ req[s].endpoint = "stream"
            => IsPrefix(DataTexts(req[s].trace), FragmentsOf(req[s].body[1]))
       /\ IsPrefix(req[s].fullResponse, Concat(FragmentsOf(req[s].body[1])))
       /\ (/\ req[s].pc = "closed"
           /\ req[s].delivered = Len(req[s].body[1])
           /\ \E j \in Where(req[s].trace, "save") : req[s].trace[j].text = req[s].fullResponse)
          => req[s].fullResponse = Concat(FragmentsOf(req[s].body[1]))

(***************************************************************************)
(* A generation and a repeat request. In RepeatSpec slot 1 takes a request *)
(* of /explain-stream on an empty store; when that request is over, slot 2 *)
(* takes a second request of /explain-stream, which reads the store as the *)
(* first one left it, so that the events of both are there to compare.     *)
(***************************************************************************)
RepeatIndexes == {Given("0"), Given("1")}
RepeatLanguages == {Given("python"), Given("Java")}

RepeatInit ==
  /\ variant \in {"strict", "lenient"}
  /\ store = <<>>
  /\ req = [s \in {1, 2} |-> IdleReq]

\* the first request arrives
RepeatFirst ==
  /\ req[1].pc = "idle" /\ req[2].pc = "idle"
  /\ \E rawIndex \in RepeatIndexes, rawLanguage \in RepeatLanguages, rawRefresh \in RawRefreshes :
       req' = [req EXCEPT ![1] = ExplainStreamStart(variant, store, rawIndex, rawLanguage,
                                                    rawRefresh, TRUE, TRUE)]
  /\ UNCHANGED <<variant, store>>

\* the second request arrives when the first one is over
RepeatSecond ==
  /\ Over(req[1]) /\ req[2].pc = "idle"
  /\ \E rawIndex \in RepeatIndexes, rawLanguage \in RepeatLanguages, rawRefresh \in RawRefreshes :
       req' = [req EXCEPT ![2] = ExplainStreamStart(variant, store, rawIndex, rawLanguage,
                                                    rawRefresh, TRUE, TRUE)]
  /\ UNCHANGED <<variant, store>>

RepeatNext ==
  \/ RepeatFirst
  \/ RepeatSecond
  \/ \E s \in DOMAIN req : PostResolves(s)
  \/ \E s \in DOMAIN req : PostRejects(s)
  \/ \E s \in DOMAIN req : StreamData(s)
  \/ \E s \in DOMAIN req : StreamEnd(s)
  \/ \E s \in DOMAIN req : StreamErrorStream(s)

RepeatSpec == RepeatInit /\ [][RepeatNext]_vars

\* the text of the data event of a request that was served from the store
CachedText(r) == DataTexts(r.trace)[1]
\* the texts of the data events of request r, one after the other: what the
\* client of r received
Received33(r) == Concat(DataTexts(r.trace))

(***************************************************************************)
(* C33, as amended: a repeat request served from the store returns the     *)
(* sanitized form of the text the client received when that response was   *)
(* first generated: the text of the cache-hit data event is                *)
(* cleanResponseText of the concatenation of the data events of the        *)
(* generation that saved the record.                                       *)
(***************************************************************************)
C33_CacheServesSanitizedText ==
  (req[2].endpoint = "stream" /\ ServedFromCache(req[2]))
  => /\ Where(req[1].trace, "save") # {}
     /\ LastSave(req[1].trace).ok
     /\ LastSave(req[1].trace).text = Received33(req[1])
     /\ Len(DataTexts(req[2].trace)) = 1
     /\ CachedText(req[2]) = cleanResponseText(variant, Received33(req[1]))

\* the first request relayed "a." and a span in backticks and saved its text;
\* the repeat request is served "a." from the store
C33_Witness ==
  /\ DataTexts(req[1].trace) = << <<"a", ".">>, <<BT, "b", BT>> >>
  /\ LastSave(req[1].trace).ok
  /\ ServedFromCache(req[2])
  /\ CachedText(req[2]) = <<"a", ".">>

\* C33, as stated: the text of the cache-hit data event is the concatenation
\* of the data events of the generation that saved the record.
C33_Original ==
  (req[2].endpoint = "stream" /\ ServedFromCache(req[2]))
  => CachedText(req[2]) = Received33(req[1])

\* the texts request r has sent to its client, each with the fallback mark it
\* was sent with: data events, and 200 replies of /explain
SentTexts(r) ==
  {[text |-> r.trace[j].text, fallback |-> r.trace[j].fallback] : j \in Where(r.trace, "data")}
  \cup {[text |-> r.trace[j].body.response, fallback |-> r.trace[j].body.fallback] :
          j \in {d \in Where(r.trace, "send") : r.trace[d].status = 200}}
\* the text the Fallback Generator produces for the problem and the language
\* of request r, as it is sent at once and as it is read back from the store
FallbackFor(v, r) == generateFallbackResponse(v, QuestionOf(r), r.normalizedLang)

\* C34: every text a request sends that the Fallback Generator produced, be
\* it sent by the handler that generated it or read back from the store by a
\* later request for the same index and language, goes out with fallback
\* true.
C34_FallbackIsMarked ==
  \A s \in DOMAIN req :
    (Validated(req[s]) /\ SentTexts(req[s]) # {})
    => \A sent \in SentTexts(req[s]) :
         (\/ sent.text = FallbackFor(variant, req[s])
          \/ (/\ ServedFromCache(req[s])
              /\ sent.text # <<>>
              /\ sent.text = cleanResponseText(variant, FallbackFor(variant, req[s]))))
         => sent.fallback

\* C35: while the store holds the record that /clear-cache wrote, that is
\* from a successful /clear-cache to the next successful save, no request is
\* served from the store, whatever its index, language and refresh value: a
\* request that starts then and passes its validation has read the sentinel
\* record, goes on to the inference endpoint, and nothing of the sentinel is
\* sent.
C35_SentinelNeverServed ==
  [][\A s \in DOMAIN req :
       (/\ Starts(s)
        /\ store = <<emptyResponse>>
        /\ req'[s].endpoint \in {"stream", "explain"})
       => /\ ~ServedFromCache(req'[s])
          /\ Where(req'[s].trace, "data") = {}
          /\ \A j \in Where(req'[s].trace, "send") : req'[s].trace[j].status # 200
          /\ Validated(req'[s]) /\ req'[s].storedResponse # <<>>
             => /\ req'[s].pc = "awaitPost"
                /\ req'[s].storedResponse = <<emptyResponse>>
                /\ Where(req'[s].trace, "post") # {}]_vars

\* after /clear-cache a request for problem 0 in python, the sentinel's
\* language, without refresh, has read the sentinel and waits for axios.post
C35_Witness ==
  \E s \in DOMAIN req :
    /\ store = <<emptyResponse>>
    /\ req[s].pc = "awaitPost"
    /\ req[s].storedResponse = <<emptyResponse>>
    /\ ~req[s].forceRefresh
    /\ req[s].index = Num(0)
    /\ req[s].normalizedLang = DEFAULT_LANGUAGE

\* C36: in RaceSpec, where two generations of /explain-stream are in flight
\* and their chunks arrive in any interleaving, the data events of each
\* request are the first fragments of the body of its own inference call, in
\* their order, none of them a fragment of the other call's body, and the
\* text a request hands to saveResponse at the end of its body is the
\* fragments of its own body, one after the other.
C36_GenerationsDoNotInterfere ==
  \A s \in DOMAIN req :
    (req[s].endpoint = "stream" /\ req[s].body # Absent /\ DOMAIN req = RaceSlots)
    => /\ req[s].body[1] = RaceBody(s)
       /\ IsPrefix(DataTexts(req[s].trace), FragmentsOf(RaceBody(s)))
       /\ \A d \in DOMAIN DataTexts(req[s].trace) :
            \A f \in DOMAIN FragmentsOf(RaceBody(OtherSlot(s))) :
              DataTexts(req[s].trace)[d] # FragmentsOf(RaceBody(OtherSlot(s)))[f]
       /\ IsPrefix(req[s].fullResponse, Concat(FragmentsOf(RaceBody(s))))
       /\ \A j \in Where(req[s].trace, "save") :
            req[s].trace[j].text = Concat(FragmentsOf(RaceBody(s)))

\* the two generations overlap: slot 2 has relayed its fragment "b." while
\* slot 1 holds the beginning of its record in its buffer, and slot 1 has
\* relayed nothing yet
C36_Witness ==
  /\ DOMAIN req = RaceSlots
  /\ req[1].pc = "streaming" /\ req[1].jsonBuffer = <<OpenRecord, "a">>
  /\ DataTexts(req[1].trace) = <<>>
  /\ req[2].pc = "streaming"
  /\ DataTexts(req[2].trace) = << <<"b", ".">> >>

\* the request that starts in slot s in this step asks for java, in
\* lowercase or capitalized, names a problem of the loaded catalog, and has
\* read the store
AsksForJava(s) ==
  /\ Starts(s)
  /\ req'[s].endpoint \in {"stream", "explain"}
  /\ req'[s].rawLanguage \in {Given("java"), Given("Java")}
  /\ req'[s].questions > 0
  /\ ~req'[s].index.nan /\ req'[s].index.n >= 0 /\ req'[s].index.n < req'[s].questions

\* C37: the language of a request is matched without regard to letter case.
\* A request for "java" and a request for "Java" with the same index have the
\* same key (index, "java"): either one, when it does not ask for a refresh
\* and reads a store that holds the record a generation saved under that
\* key, is served that record from the store, and its metadata (its reply on
\* /explain) carries the lowercase name "java"; when it is not served from
\* the store, the language it goes to the inference endpoint with is "java".
C37_LanguageIgnoresCase ==
  [][\A s \in DOMAIN req :
       AsksForJava(s)
       => /\ req'[s].normalizedLang = "java"
          /\ \A j \in Where(req'[s].trace, "metadata") : req'[s].trace[j].language = "java"
          /\ \A j \in Where(req'[s].trace, "post") : req'[s].trace[j].language = "java"
          /\ (/\ ~req'[s].forceRefresh
              /\ HasRecord(store)
              /\ req'[s].storedResponse = store
              /\ StrictEq(store[1].questionIndex, req'[s].index)
              /\ store[1].language = "java")
             => /\ req'[s].pc = "closed"
                /\ ServedFromCache(req'[s])
                /\ IF req'[s].endpoint = "stream"
                   THEN DataTexts(req'[s].trace) = <<store[1].response>>
                   ELSE /\ req'[s].trace[1].body.response = store[1].response
                        /\ req'[s].trace[1].body.language = Given("java")]_vars

\* a request for "Java" was served from the store the record saved under
\* "java", with metadata that says "java"
C37_Witness ==
  \E s \in DOMAIN req :
    /\ req[s].endpoint = "stream" /\ req[s].pc = "closed"
    /\ req[s].rawLanguage = Given("Java")
    /\ HasRecord(store) /\ store[1].language = "java" /\ store[1].response # <<>>
    /\ req[s].trace[1] = [k |-> "metadata", title |-> store[1].title, language |-> "java",
                          languageDisplay |-> "Java", fromCache |-> TRUE]
    /\ DataTexts(req[s].trace) = <<store[1].response>>

(***************************************************************************)
(* The client: the component AIAssistanceTab. In ClientSpec the slot holds *)
(* the component instead of a request of the server: its React state       *)
(* (serverStatus, error, isLoading, activeButton, fromCache,               *)
(* streamingContent, responseContent), and the invocation of               *)
(* handleCodeGeneration that is in flight: where it is (pc), the           *)
(* serverStatus of the render it was created in, which is the value the    *)
(* name serverStatus has inside it (captured), the outcome of the health   *)
(* check it awaited (recheck), and the code it has accumulated. mountCheck *)
(* says whether the health check of the mount effect is still under way,   *)
(* testing whether handleTestConnection awaits its fetch. One invocation   *)
(* of handleCodeGeneration is in flight at a time. A text the component    *)
(* shows is the sequence of its pieces. The server and its store play no   *)
(* part and stay as they are.                                              *)
(***************************************************************************)
\* errorMessage of the "error" listener, by the readyState of the EventSource
StreamError(readyState) ==
  IF readyState = "CLOSED"
  THEN "Error connecting to code generation server. Connection was closed. Please check if the server is running and try again."
  ELSE IF readyState = "CONNECTING"
  THEN "Error connecting to code generation server. Attempting to reconnect. Please check if the server is running and try again."
  ELSE "Error connecting to code generation server. Please check if the server is running and try again."
\* how fetch("/health") may settle: response.ok, a response that is not ok,
\* a rejection (no connection, or the timeout of 3 s)
FetchOutcomes == {"ok", "notOk", "throws"}
\* the code chunks a stream may carry, in their order
CodeChunks == <<"a", "b">>

TabMounted ==
  [pc |-> "idle", serverStatus |-> "unknown", error |-> "", isLoading |-> FALSE,
   activeButton |-> "", fromCache |-> FALSE, streamingContent |-> <<>>,
   responseContent |-> <<>>, mountCheck |-> "pending", testing |-> FALSE,
   readyState |-> "none",
   captured |-> "unknown", recheck |-> "none", accumulatedCode |-> <<>>]

\* checkServerStatus once fetch has settled: the component after it
checkServerStatus(tab, outcome) ==
  [tab EXCEPT !.serverStatus = IF outcome = "ok" THEN "online" ELSE "offline"]

\* handleCodeGeneration from `setIsLoading(true)` to the listeners being set
\* on the EventSource: the component after it
OpenStream(tab) ==
  [tab EXCEPT !.pc = "opened", !.isLoading = TRUE, !.activeButton = "generation",
              !.error = "", !.streamingContent = <<>>, !.responseContent = <<>>,
              !.fromCache = FALSE, !.accumulatedCode = <<>>,
              !.readyState = "CONNECTING"]

\* handleCodeGeneration after `await checkServerStatus()`: serverStatus is
\* the constant of the render the function was created in
AfterRecheck(tab) ==
  IF tab.captured = "offline"
  THEN [tab EXCEPT !.pc = "refused",
                   !.error = "Code generation server is offline. Please start the server and try again."]
  ELSE OpenStream(tab)

ClientInit ==
  /\ variant \in {"strict", "lenient"}
  /\ store = <<>>
  /\ req = [s \in {1} |-> TabMounted]

\* the health check of the mount effect settles
MountCheckSettles(s) ==
  /\ req[s].mountCheck = "pending"
  /\ \E outcome \in FetchOutcomes :
       req' = [req EXCEPT ![s] = [checkServerStatus(req[s], outcome) EXCEPT !.mountCheck = "done"]]
  /\ UNCHANGED <<variant, store>>

\* the button is clicked: handleCodeGeneration up to its first await, or to
\* its end when it awaits nothing
HandleCodeGeneration(s) ==
  /\ req[s].pc \in {"idle", "refused", "failed", "done"}
  /\ ~req[s].isLoading
  /\ req' = [req EXCEPT ![s] =
               IF req[s].serverStatus = "offline"
               THEN [req[s] EXCEPT !.pc = "rechecking", !.captured = req[s].serverStatus,
                                   !.recheck = "none"]
               ELSE OpenStream([req[s] EXCEPT !.captured = req[s].serverStatus,
                                              !.recheck = "none"])]
  /\ UNCHANGED <<variant, store>>

\* the health check that handleCodeGeneration awaits settles, and the
\* function goes on
RecheckSettles(s) ==
  /\ req[s].pc = "rechecking"
  /\ \E outcome \in FetchOutcomes :
       req' = [req EXCEPT ![s] =
                 AfterRecheck([checkServerStatus(req[s], outcome) EXCEPT
                                 !.recheck = IF outcome = "ok" THEN "ok" ELSE "failed"])]
  /\ UNCHANGED <<variant, store>>

\* eventSource.addEventListener("metadata")
OnMetadata(s) ==
  /\ req[s].pc = "opened"
  /\ req[s].accumulatedCode = <<>>
  /\ \E fromCache \in BOOLEAN :
       req' = [req EXCEPT ![s].fromCache = fromCache, ![s].readyState = "OPEN"]
  /\ UNCHANGED <<variant, store>>

\* eventSource.addEventListener("data")
OnCode(s) ==
  /\ req[s].pc = "opened"
  /\ Len(req[s].accumulatedCode) < Len(CodeChunks)
  /\ LET accumulatedCode == Append(req[s].accumulatedCode,
                                   CodeChunks[Len(req[s].accumulatedCode) + 1])
     IN req' = [req EXCEPT ![s].accumulatedCode = accumulatedCode,
                           ![s].streamingContent = accumulatedCode,
                           ![s].readyState = "OPEN"]
  /\ UNCHANGED <<variant, store>>

\* eventSource.addEventListener("complete")
OnComplete(s) ==
  /\ req[s].pc = "opened"
  /\ req' = [req EXCEPT ![s].pc = "done", ![s].responseContent = req[s].accumulatedCode,
                        ![s].streamingContent = <<>>, ![s].isLoading = FALSE,
                        ![s].readyState = "CLOSED"]
  /\ UNCHANGED <<variant, store>>

\* eventSource.addEventListener("error"): the browser has set readyState to
\* CONNECTING (it will try again) or to CLOSED before it calls the listener,
\* which closes the EventSource
OnStreamError(s) ==
  /\ req[s].pc = "opened"
  /\ \E readyState \in {"CONNECTING", "CLOSED"} :
       req' = [req EXCEPT ![s].pc = "failed", ![s].error = StreamError(readyState),
                          ![s].isLoading = FALSE, ![s].streamingContent = <<>>,
                          ![s].serverStatus = "offline", ![s].readyState = "CLOSED"]
  /\ UNCHANGED <<variant, store>>

\* the connection timeout of 5 s passes and the EventSource is not open
OnConnectionTimeout(s) ==
  /\ req[s].pc = "opened"
  /\ req[s].readyState # "OPEN"
  /\ req' = [req EXCEPT ![s].pc = "failed", ![s].isLoading = FALSE,
                        ![s].readyState = "CLOSED",
                        ![s].error = "Connection timeout - could not connect to code generation server. Please check if the server is running."]
  /\ UNCHANGED <<variant, store>>

\* the button Code Explanation is clicked: handleCodeExplanation, which
\* awaits nothing
HandleCodeExplanation(s) ==
  /\ ~req[s].isLoading
  /\ req' = [req EXCEPT ![s].isLoading = FALSE, ![s].activeButton = "explanation",
                        ![s].error = "",
                        ![s].responseContent = <<"Code explanation feature will be implemented soon.">>]
  /\ UNCHANGED <<variant, store>>

\* the button Bug Fixing is clicked: handleBugFixing, which awaits nothing
HandleBugFixing(s) ==
  /\ ~req[s].isLoading
  /\ req' = [req EXCEPT ![s].isLoading = FALSE, ![s].activeButton = "bugfix",
                        ![s].error = "",
                        ![s].responseContent = <<"Bug fixing feature will be implemented soon.">>]
  /\ UNCHANGED <<variant, store>>

\* the button Test Server Connection, which is there while serverStatus is
\* offline, is clicked: handleTestConnection up to its await
HandleTestConnection(s) ==
  /\ req[s].serverStatus = "offline"
  /\ ~req[s].isLoading
  /\ req' = [req EXCEPT ![s].testing = TRUE, ![s].isLoading = TRUE,
                        ![s].activeButton = "test", ![s].error = "",
                        ![s].streamingContent = <<>>, ![s].responseContent = <<>>,
                        ![s].fromCache = FALSE]
  /\ UNCHANGED <<variant, store>>

\* the fetch that handleTestConnection awaits settles, and the function ends
TestConnectionSettles(s) ==
  /\ req[s].testing
  /\ \E outcome \in FetchOutcomes :
       req' = [req EXCEPT
                 ![s].testing = FALSE, ![s].isLoading = FALSE,
                 ![s].serverStatus = IF outcome = "ok" THEN "online" ELSE "offline",
                 ![s].responseContent =
                    IF outcome = "ok"
                    THEN <<"Server connection successful! You can now use code generation.">>
                    ELSE req[s].responseContent,
                 ![s].error =
                    IF outcome = "ok" THEN req[s].error
                    ELSE IF outcome = "notOk"
                    THEN "Server returned an error. Please check if the server is running correctly."
                    ELSE "Could not connect to the server. Please make sure the code generation server is running."]
  /\ UNCHANGED <<variant, store>>

ClientNext ==
  \/ \E s \in DOMAIN req : MountCheckSettles(s)
  \/ \E s \in DOMAIN req : HandleCodeGeneration(s)
  \/ \E s \in DOMAIN req : RecheckSettles(s)
  \/ \E s \in DOMAIN req : OnMetadata(s)
  \/ \E s \in DOMAIN req : OnCode(s)
  \/ \E s \in DOMAIN req : OnComplete(s)
  \/ \E s \in DOMAIN req : OnStreamError(s)
  \/ \E s \in DOMAIN req : OnConnectionTimeout(s)
  \/ \E s \in DOMAIN req : HandleCodeExplanation(s)
  \/ \E s \in DOMAIN req : HandleBugFixing(s)
  \/ \E s \in DOMAIN req : HandleTestConnection(s)
  \/ \E s \in DOMAIN req : TestConnectionSettles(s)

ClientSpec == ClientInit /\ [][ClientNext]_vars

\* C38: an invocation of handleCodeGeneration that found serverStatus
\* offline runs the health check again and shows the offline error only if
\* that check failed; if that check succeeded the same invocation has opened
\* the stream.
C38_RecheckDecides ==
  \A s \in DOMAIN req :
    (req[s].captured = "offline" /\ req[s].recheck # "none")
    => /\ req[s].pc = "refused" => req[s].recheck = "failed"
       /\ req[s].recheck = "ok" => req[s].pc \in {"opened", "done", "failed"}

====
